---- MODULE Spec2Model ----
(***************************************************************************)
(* SafeLens desktop verifier cores: the consensus-proof verifier           *)
(* (consensus.rs), the simulation-replay verifier and its native-transfer  *)
(* inspector (simulation_replay.rs).                                       *)
(*                                                                         *)
(* Strings that the code inspects character by character (hex roots,       *)
(* addresses, return data) are sequences of one-character strings.         *)
(* Identifiers the code only compares whole (error codes, network names,   *)
(* consensus modes, check ids) are TLA+ strings.                           *)
(***************************************************************************)
EXTENDS Integers, Sequences, FiniteSets, TLC

VARIABLES
    \* ---- consensus verifier (consensus.rs) ----
    input,          \* ConsensusProofInput of the request being served
    pc,             \* position inside verify_consensus_proof
    store,          \* LightClientStore
    checks,         \* the local `checks` vector
    update_index,   \* loop index i of the update loop
    update_count,   \* the local update_count
    parsed,         \* the message most recently deserialized (update / finality update)
    calls,          \* history of the light-client library calls made so far
    result,         \* ConsensusVerificationResult, None until the call returns
    \* ---- replay verifier (simulation_replay.rs) ----
    rinput,         \* SimulationReplayInput of the request being served
    rpc,            \* position inside verify_simulation_replay
    replay,         \* Result<ReplayExecution, String> of execute_replay
    compared,       \* the comparisons evaluated so far, in order
    rresult,        \* SimulationReplayVerificationResult, None until the call returns
    evm,            \* the database, transaction and block execute_replay has built
    \* ---- native-transfer inspector (simulation_replay.rs) ----
    frame_stack,    \* NativeTransferInspector.frame_stack
    finalized,      \* NativeTransferInspector.finalized
    open_inputs,    \* the EVM's open frames: the inputs handed to call/create and back to *_end
    frames,         \* history: every frame entered so far (parent, status)
    events,         \* history: every value transfer that happened, in execution order
    reported,       \* ReplayExecution.native_transfers, None until extract_execution ran
    \* ---- shared codec (simulation_replay.rs) ----
    codec_in,       \* the string handed to normalize_hex
    codec_out,      \* the results of the successive normalize_hex applications
    \* ---- slot clock (consensus.rs) ----
    slot_in,        \* the SystemTime and network handed to the slot calculation
    current_slot    \* the expected current slot, None until it is computed

consensus_vars == <<input, pc, store, checks, update_index, update_count, parsed, calls, result>>
replay_vars == <<rinput, rpc, replay, compared, rresult, evm>>
inspector_vars == <<frame_stack, finalized, open_inputs, frames, events, reported>>
codec_vars == <<codec_in, codec_out>>
slot_vars == <<slot_in, current_slot>>
vars == <<consensus_vars, replay_vars, inspector_vars, codec_vars, slot_vars>>

----------------------------------------------------------------------------
(* Option<T> *)
None == [some |-> FALSE]
Some(v) == [some |-> TRUE, val |-> v]

(* the EVM context of a replay before execute_replay built anything *)
NoEvm == [db |-> None, tx |-> None, block |-> None, outcome |-> None]

(* Result<T, String> *)
Ok(v) == [ok |-> TRUE, val |-> v]
Err == [ok |-> FALSE]

----------------------------------------------------------------------------
(* Bounds of the model *)
MaxUpdates == 2

----------------------------------------------------------------------------
(* Characters and hex *)
RECURSIVE Rep(_, _)
Rep(s, n) == IF n = 0 THEN <<>> ELSE s \o Rep(s, n - 1)

HexLower == <<"0","1","2","3","4","5","6","7","8","9","a","b","c","d","e","f">>
HexUpper == <<"0","1","2","3","4","5","6","7","8","9","A","B","C","D","E","F">>

IsHexChar(c) == \E k \in 1..16 : HexLower[k] = c \/ HexUpper[k] = c
HexVal(c) == (CHOOSE k \in 1..16 : HexLower[k] = c \/ HexUpper[k] = c) - 1

AsciiUpper == <<"A","B","C","D","E","F","G","H","I","J","K","L","M",
                "N","O","P","Q","R","S","T","U","V","W","X","Y","Z">>
AsciiLower == <<"a","b","c","d","e","f","g","h","i","j","k","l","m",
                "n","o","p","q","r","s","t","u","v","w","x","y","z">>

to_ascii_lowercase_char(c) ==
    IF \E k \in 1..Len(AsciiUpper) : AsciiUpper[k] = c
    THEN AsciiLower[CHOOSE k \in 1..Len(AsciiUpper) : AsciiUpper[k] = c]
    ELSE c

to_ascii_lowercase(s) == [k \in 1..Len(s) |-> to_ascii_lowercase_char(s[k])]

eq_ignore_ascii_case(a, b) ==
    /\ Len(a) = Len(b)
    /\ \A k \in 1..Len(a) : to_ascii_lowercase_char(a[k]) = to_ascii_lowercase_char(b[k])

(* str::strip_prefix("0x").unwrap_or(s): case-sensitive, at most one prefix *)
strip_prefix_0x(s) ==
    IF Len(s) >= 2 /\ s[1] = "0" /\ s[2] = "x" THEN SubSeq(s, 3, Len(s)) ELSE s

(* hex::decode: odd length or a non-hex character is an error; both cases
   of the digits are accepted.  Bytes are values 0..255. *)
hex_decode(s) ==
    IF Len(s) % 2 # 0 \/ \E k \in 1..Len(s) : ~IsHexChar(s[k])
    THEN Err
    ELSE Ok([k \in 1..(Len(s) \div 2) |-> 16 * HexVal(s[2 * k - 1]) + HexVal(s[2 * k])])

(* hex::encode: two lowercase digits per byte *)
hex_encode(bytes) ==
    [k \in 1..(2 * Len(bytes)) |->
        IF k % 2 = 1 THEN HexLower[(bytes[(k + 1) \div 2] \div 16) + 1]
                     ELSE HexLower[(bytes[k \div 2] % 16) + 1]]

(* format!("{:#x}", b256) *)
format_hex(bytes) == <<"0", "x">> \o hex_encode(bytes)

B256Len == 32

(* parse_b256 without the 32-byte length test *)
parse_b256_any_length(s) == hex_decode(strip_prefix_0x(s))

parse_b256(s) ==
    LET d == hex_decode(strip_prefix_0x(s))
    IN  IF ~d.ok THEN Err
        ELSE IF Len(d.val) # B256Len THEN Err
        ELSE d

U64HexDigits == 16

strip_leading_zeros(s) ==
    IF \A k \in 1..Len(s) : s[k] = "0" THEN <<>>
    ELSE SubSeq(s, CHOOSE k \in 1..Len(s) : s[k] # "0" /\ \A j \in 1..(k - 1) : s[j] = "0", Len(s))

RECURSIVE HexNat(_)
HexNat(s) == IF Len(s) = 0 THEN 0 ELSE 16 * HexNat(SubSeq(s, 1, Len(s) - 1)) + HexVal(s[Len(s)])

(* u64::from_str_radix(_, 16): an optional leading "+", then at least one
   hex digit; more than 16 significant digits overflow u64. *)
u64_from_str_radix16(s) ==
    LET digits == IF Len(s) >= 1 /\ s[1] = "+" THEN SubSeq(s, 2, Len(s)) ELSE s
    IN  IF Len(digits) = 0 \/ \E k \in 1..Len(digits) : ~IsHexChar(digits[k]) THEN Err
        ELSE IF Len(strip_leading_zeros(digits)) > U64HexDigits THEN Err
        ELSE Ok(HexNat(strip_leading_zeros(digits)))

parse_hex_u64(value) ==
    LET trimmed == strip_prefix_0x(value)
    IN  IF Len(trimmed) = 0 THEN Err ELSE u64_from_str_radix16(trimmed)

----------------------------------------------------------------------------
(* Error codes, consensus.rs *)
ERR_UNSUPPORTED_NETWORK == "unsupported-network"
ERR_UNSUPPORTED_CONSENSUS_MODE == "unsupported-consensus-mode"
ERR_INVALID_CHECKPOINT == "invalid-checkpoint-hash"
ERR_INVALID_BOOTSTRAP == "invalid-bootstrap-json"
ERR_BOOTSTRAP_VERIFICATION_FAILED == "bootstrap-verification-failed"
ERR_INVALID_UPDATE == "invalid-update-json"
ERR_UPDATE_VERIFICATION_FAILED == "update-verification-failed"
ERR_INVALID_FINALITY_UPDATE == "invalid-finality-update-json"
ERR_FINALITY_VERIFICATION_FAILED == "finality-verification-failed"
ERR_MISSING_EXECUTION_PAYLOAD == "missing-execution-payload"
ERR_INVALID_EXPECTED_STATE_ROOT == "invalid-expected-state-root"
ERR_STATE_ROOT_MISMATCH == "state-root-mismatch"
ERR_INVALID_PROOF_PAYLOAD == "invalid-proof-payload"

(* parse_network without the final rejecting arm *)
parse_network_accepts_any(network) ==
    IF network \in {"gnosis", "xdai"} THEN Ok("gnosis") ELSE Ok(network)

parse_network(network) ==
    IF network \in {"mainnet", "sepolia", "holesky", "hoodi"} THEN Ok(network)
    ELSE IF network \in {"gnosis", "xdai"} THEN Ok("gnosis")
    ELSE Err

(* A JSON-carrying string is the structure it deserializes to, or text that
   does not deserialize. *)
Json(v) == [parses |-> TRUE, val |-> v]
NotJson == [parses |-> FALSE]
serde_from_str(raw) == IF raw.parses THEN Ok(raw.val) ELSE Err

----------------------------------------------------------------------------
(* The light-client library (helios_consensus_core), as far as the verifier
   depends on it: a message verifies when its own proofs and signature are
   good (sig_ok / proof_ok, which also stands for the slot checks against
   the expected current slot) and it is signed by the committee the store
   currently trusts; applying it moves the store. *)
HexA == Rep(<<"a">>, 2 * B256Len)
HexB == Rep(<<"b">>, 2 * B256Len)
HexC == Rep(<<"c">>, 2 * B256Len)
Prefixed(s) == <<"0", "x">> \o s

Headers == {"h1", "h2", "h3"}
Committees == {"c1", "c2"}

hash_tree_root(header) ==
    CASE header = "h1" -> hex_decode(HexA).val
      [] header = "h2" -> hex_decode(HexB).val
      [] OTHER -> hex_decode(HexC).val

(* finalized_header.execution(): h3 is a pre-Capella header *)
execution(header) ==
    CASE header = "h1" -> Ok([state_root |-> hex_decode(HexA).val, block_number |-> 1])
      [] header = "h2" -> Ok([state_root |-> hex_decode(HexB).val, block_number |-> 2])
      [] OTHER -> Err

DefaultStore == [finalized_header |-> "default", current_sync_committee |-> "default"]

verify_bootstrap(bootstrap, checkpoint) ==
    bootstrap.proof_ok /\ hash_tree_root(bootstrap.header) = checkpoint

apply_bootstrap(st, bootstrap) ==
    [finalized_header |-> bootstrap.header,
     current_sync_committee |-> bootstrap.current_sync_committee]

verify_update(update, st) ==
    update.sig_ok /\ update.signed_by = st.current_sync_committee

apply_update(st, update) ==
    [finalized_header |-> update.finalized_header,
     current_sync_committee |-> update.next_sync_committee]

verify_finality_update(fu, st) ==
    fu.sig_ok /\ fu.signed_by = st.current_sync_committee

apply_finality_update(st, fu) ==
    [st EXCEPT !.finalized_header = fu.finalized_header]

get_bits(fu) == fu.participants

----------------------------------------------------------------------------
(* Results *)
Check(id, passed) == [id |-> id, passed |-> passed]

fail_result(error_code) ==
    [valid |-> FALSE,
     verified_state_root |-> None,
     verified_block_number |-> None,
     state_root_matches |-> FALSE,
     sync_committee_participants |-> 0,
     error |-> Some(error_code),
     error_code |-> Some(error_code),
     checks |-> <<>>]

(* a verification-failure result that carries the message but no code *)
failed_with_checks_without_code(error_code, participants, cs) ==
    [valid |-> FALSE,
     verified_state_root |-> None,
     verified_block_number |-> None,
     state_root_matches |-> FALSE,
     sync_committee_participants |-> participants,
     error |-> Some(error_code),
     error_code |-> None,
     checks |-> cs]

(* The struct literals of the verification-failure arms: the checks
   recorded so far are returned. *)
failed_with_checks(error_code, participants, cs) ==
    [valid |-> FALSE,
     verified_state_root |-> None,
     verified_block_number |-> None,
     state_root_matches |-> FALSE,
     sync_committee_participants |-> participants,
     error |-> Some(error_code),
     error_code |-> Some(error_code),
     checks |-> cs]

Return(r) == result' = Some(r) /\ pc' = "done"

Call(op, index, ok) == [op |-> op, index |-> index, ok |-> ok]

updates_of(inp) == IF inp.updates.some THEN inp.updates.val ELSE <<>>

----------------------------------------------------------------------------
(* verify_consensus_proof *)

replay_idle == UNCHANGED replay_vars
inspector_idle == UNCHANGED inspector_vars
codec_idle == UNCHANGED codec_vars
slot_idle == UNCHANGED slot_vars
others_idle == replay_idle /\ inspector_idle /\ codec_idle /\ slot_idle

(* consensus.rs 352-366: mode dispatch, then the network lookup *)
Dispatch ==
    /\ pc = "start"
    /\ IF input.consensus_mode # "beacon"
       THEN pc' = "envelope_payload" /\ UNCHANGED result
       ELSE IF ~parse_network(input.network).ok
            THEN Return(fail_result(ERR_UNSUPPORTED_NETWORK))
            ELSE pc' = "checkpoint" /\ UNCHANGED result
    /\ UNCHANGED <<input, store, checks, update_index, update_count, parsed, calls>>
    /\ others_idle

(* consensus.rs 572-590 *)
ParseCheckpoint ==
    /\ pc = "checkpoint"
    /\ IF ~input.checkpoint.some
       THEN Return(fail_result(ERR_INVALID_CHECKPOINT))
       ELSE IF ~parse_b256(input.checkpoint.val).ok
            THEN Return(fail_result(ERR_INVALID_CHECKPOINT))
            ELSE pc' = "bootstrap_parse" /\ UNCHANGED result
    /\ UNCHANGED <<input, store, checks, update_index, update_count, parsed, calls>>
    /\ others_idle

(* consensus.rs 595-613 *)
ParseBootstrap ==
    /\ pc = "bootstrap_parse"
    /\ IF ~input.bootstrap.some
       THEN Return(fail_result(ERR_INVALID_BOOTSTRAP)) /\ UNCHANGED <<parsed, calls>>
       ELSE LET b == serde_from_str(input.bootstrap.val)
            IN  /\ calls' = Append(calls, Call("parse_bootstrap", 0, b.ok))
                /\ IF ~b.ok
                   THEN Return(fail_result(ERR_INVALID_BOOTSTRAP)) /\ UNCHANGED parsed
                   ELSE parsed' = Some(b.val) /\ pc' = "bootstrap_verify" /\ UNCHANGED result
    /\ UNCHANGED <<input, store, checks, update_index, update_count>>
    /\ others_idle

(* the bootstrap stage going on to build the store from a bootstrap that
   failed verification *)
VerifyBootstrap_applies_unverified ==
    /\ pc = "bootstrap_verify"
    /\ LET ok == verify_bootstrap(parsed.val, parse_b256(input.checkpoint.val).val)
       IN  /\ calls' = Append(calls, Call("verify_bootstrap", 0, ok))
           /\ checks' = Append(checks, Check("bootstrap", ok))
           /\ pc' = "store_init"
    /\ UNCHANGED <<input, store, update_index, update_count, parsed, result>>
    /\ others_idle

(* consensus.rs 615-646 *)
VerifyBootstrap ==
    /\ pc = "bootstrap_verify"
    /\ LET ok == verify_bootstrap(parsed.val, parse_b256(input.checkpoint.val).val)
           cs == Append(checks, Check("bootstrap", ok))
       IN  /\ calls' = Append(calls, Call("verify_bootstrap", 0, ok))
           /\ checks' = cs
           /\ IF ok
              THEN pc' = "store_init" /\ UNCHANGED result
              ELSE Return(failed_with_checks(ERR_BOOTSTRAP_VERIFICATION_FAILED, 0, cs))
    /\ UNCHANGED <<input, store, update_index, update_count, parsed>>
    /\ others_idle

(* consensus.rs 648-667 *)
ApplyBootstrap ==
    /\ pc = "store_init"
    /\ store' = apply_bootstrap(DefaultStore, parsed.val)
    /\ calls' = Append(calls, Call("apply_bootstrap", 0, TRUE))
    /\ checks' = Append(checks, Check("store-init", TRUE))
    /\ pc' = "updates"
    /\ UNCHANGED <<input, update_index, update_count, parsed, result>>
    /\ others_idle

UpdateCheckId(i) == "update-" \o ToString(i)

(* consensus.rs 671-694: the loop takes the next update and deserializes it *)
ParseUpdate ==
    /\ pc = "updates"
    /\ update_index < Len(updates_of(input))
    /\ LET u == serde_from_str(updates_of(input)[update_index + 1])
           cs == Append(checks, Check(UpdateCheckId(update_index), FALSE))
       IN  /\ calls' = Append(calls, Call("parse_update", update_index, u.ok))
           /\ IF u.ok
              THEN parsed' = Some(u.val) /\ pc' = "update_verify" /\ UNCHANGED <<checks, result>>
              ELSE /\ checks' = cs
                   /\ Return(failed_with_checks(ERR_INVALID_UPDATE, 0, cs))
                   /\ UNCHANGED parsed
    /\ UNCHANGED <<input, store, update_index, update_count>>
    /\ others_idle

(* the update loop going on to the next update after a failed verification *)
VerifyUpdate_continues_after_failure ==
    /\ pc = "update_verify"
    /\ LET ok == verify_update(parsed.val, store)
       IN  /\ store' = IF ok THEN apply_update(store, parsed.val) ELSE store
           /\ calls' = IF ok
                       THEN calls \o <<Call("verify_update", update_index, TRUE),
                                       Call("apply_update", update_index, TRUE)>>
                       ELSE Append(calls, Call("verify_update", update_index, FALSE))
           /\ update_count' = IF ok THEN update_count + 1 ELSE update_count
           /\ update_index' = update_index + 1
           /\ pc' = "updates"
    /\ UNCHANGED <<input, parsed, checks, result>>
    /\ others_idle

(* consensus.rs 696-727 *)
VerifyUpdate ==
    /\ pc = "update_verify"
    /\ LET ok == verify_update(parsed.val, store)
           cs == Append(checks, Check(UpdateCheckId(update_index), FALSE))
       IN  IF ok
           THEN /\ store' = apply_update(store, parsed.val)
                /\ calls' = calls \o <<Call("verify_update", update_index, TRUE),
                                       Call("apply_update", update_index, TRUE)>>
                /\ update_count' = update_count + 1
                /\ update_index' = update_index + 1
                /\ pc' = "updates"
                /\ UNCHANGED <<checks, result>>
           ELSE /\ calls' = Append(calls, Call("verify_update", update_index, FALSE))
                /\ checks' = cs
                /\ Return(failed_with_checks(ERR_UPDATE_VERIFICATION_FAILED, 0, cs))
                /\ UNCHANGED <<store, update_count, update_index>>
    /\ UNCHANGED <<input, parsed>>
    /\ others_idle

(* consensus.rs 730-740: the loop is exhausted *)
EndUpdates ==
    /\ pc = "updates"
    /\ update_index = Len(updates_of(input))
    /\ checks' = IF update_count > 0 THEN Append(checks, Check("updates", TRUE)) ELSE checks
    /\ pc' = "finality_parse"
    /\ UNCHANGED <<input, store, update_index, update_count, parsed, calls, result>>
    /\ others_idle

(* consensus.rs 742-760 *)
ParseFinality ==
    /\ pc = "finality_parse"
    /\ IF ~input.finality_update.some
       THEN Return(fail_result(ERR_INVALID_FINALITY_UPDATE)) /\ UNCHANGED <<parsed, calls>>
       ELSE LET f == serde_from_str(input.finality_update.val)
            IN  /\ calls' = Append(calls, Call("parse_finality_update", 0, f.ok))
                /\ IF ~f.ok
                   THEN Return(fail_result(ERR_INVALID_FINALITY_UPDATE)) /\ UNCHANGED parsed
                   ELSE parsed' = Some(f.val) /\ pc' = "finality_verify" /\ UNCHANGED result
    /\ UNCHANGED <<input, store, checks, update_index, update_count>>
    /\ others_idle

(* the finality stage going on to apply a finality update that failed *)
VerifyFinality_applies_anyway ==
    /\ pc = "finality_verify"
    /\ LET ok == verify_finality_update(parsed.val, store)
       IN  /\ calls' = Append(calls, Call("verify_finality_update", 0, ok))
           /\ checks' = Append(checks, Check("finality", ok))
           /\ pc' = "finality_apply"
    /\ UNCHANGED <<input, store, update_index, update_count, parsed, result>>
    /\ others_idle

(* consensus.rs 762-802 *)
VerifyFinality ==
    /\ pc = "finality_verify"
    /\ LET participants == get_bits(parsed.val)
           ok == verify_finality_update(parsed.val, store)
           cs == Append(checks, Check("finality", ok))
       IN  /\ calls' = Append(calls, Call("verify_finality_update", 0, ok))
           /\ checks' = cs
           /\ IF ok
              THEN pc' = "finality_apply" /\ UNCHANGED result
              ELSE Return(failed_with_checks(ERR_FINALITY_VERIFICATION_FAILED, participants, cs))
    /\ UNCHANGED <<input, store, update_index, update_count, parsed>>
    /\ others_idle

(* consensus.rs 804-805 *)
ApplyFinality ==
    /\ pc = "finality_apply"
    /\ store' = apply_finality_update(store, parsed.val)
    /\ calls' = Append(calls, Call("apply_finality_update", 0, TRUE))
    /\ pc' = "extract"
    /\ UNCHANGED <<input, checks, update_index, update_count, parsed, result>>
    /\ others_idle

(* the final result asserting validity whatever the comparison said *)
beacon_result_always_valid(verified_state_root, verified_block_number, state_root_matches, participants, cs) ==
    [valid |-> TRUE,
     verified_state_root |-> Some(verified_state_root),
     verified_block_number |-> Some(verified_block_number),
     state_root_matches |-> state_root_matches,
     sync_committee_participants |-> participants,
     error |-> None,
     error_code |-> None,
     checks |-> cs]

(* consensus.rs 869-882 *)
beacon_result(verified_state_root, verified_block_number, state_root_matches, participants, cs) ==
    [valid |-> state_root_matches,
     verified_state_root |-> Some(verified_state_root),
     verified_block_number |-> Some(verified_block_number),
     state_root_matches |-> state_root_matches,
     sync_committee_participants |-> participants,
     error |-> IF state_root_matches THEN None ELSE Some(ERR_STATE_ROOT_MISMATCH),
     error_code |-> IF state_root_matches THEN None ELSE Some(ERR_STATE_ROOT_MISMATCH),
     checks |-> cs]

(* consensus.rs 807-882: extraction, expected-root parse, comparison *)
ExtractAndCompare ==
    /\ pc = "extract"
    /\ LET exec == execution(store.finalized_header)
           expected == parse_b256(input.expected_state_root)
       IN  IF ~exec.ok
           THEN Return(fail_result(ERR_MISSING_EXECUTION_PAYLOAD)) /\ UNCHANGED checks
           ELSE IF ~expected.ok
           THEN Return(fail_result(ERR_INVALID_EXPECTED_STATE_ROOT)) /\ UNCHANGED checks
           ELSE LET verified_state_root == format_hex(exec.val.state_root)
                    expected_state_root == format_hex(expected.val)
                    state_root_matches ==
                        eq_ignore_ascii_case(verified_state_root, expected_state_root)
                    cs == checks \o <<Check("state-root", TRUE),
                                      Check("state-root-match", state_root_matches)>>
                IN  /\ checks' = cs
                    /\ Return(beacon_result(verified_state_root, exec.val.block_number,
                                            state_root_matches, get_bits(parsed.val), cs))
    /\ UNCHANGED <<input, store, update_index, update_count, parsed, calls>>
    /\ others_idle

----------------------------------------------------------------------------
(* verify_execution_envelope: the structural check of a non-beacon payload *)

(* consensus.rs 551-563 *)
envelope_result(envelope_state_root, envelope_block_number, state_root_matches, cs) ==
    [valid |-> FALSE,
     verified_state_root |-> Some(envelope_state_root),
     verified_block_number |-> Some(envelope_block_number),
     state_root_matches |-> state_root_matches,
     sync_committee_participants |-> 0,
     error |-> Some(ERR_UNSUPPORTED_CONSENSUS_MODE),
     error_code |-> Some(ERR_UNSUPPORTED_CONSENSUS_MODE),
     checks |-> cs]

(* consensus.rs 371-417 *)
EnvelopePayload ==
    /\ pc = "envelope_payload"
    /\ IF ~input.proof_payload.some
       THEN Return(fail_result(ERR_INVALID_PROOF_PAYLOAD)) /\ UNCHANGED <<parsed, checks>>
       ELSE LET payload == serde_from_str(input.proof_payload.val)
            IN  IF ~payload.ok
                THEN Return(fail_result(ERR_INVALID_PROOF_PAYLOAD)) /\ UNCHANGED <<parsed, checks>>
                ELSE IF ~payload.val.consensusMode.some
                THEN Return(fail_result(ERR_INVALID_PROOF_PAYLOAD)) /\ UNCHANGED <<parsed, checks>>
                ELSE IF payload.val.consensusMode.val # input.consensus_mode
                THEN Return(fail_result(ERR_INVALID_PROOF_PAYLOAD)) /\ UNCHANGED <<parsed, checks>>
                ELSE /\ checks' = Append(checks, Check("envelope-mode", TRUE))
                     /\ parsed' = Some(payload.val)
                     /\ pc' = "envelope_chain"
                     /\ UNCHANGED result
    /\ UNCHANGED <<input, store, update_index, update_count, calls>>
    /\ others_idle

(* consensus.rs 419-453 *)
EnvelopeChainId ==
    /\ pc = "envelope_chain"
    /\ LET payload == parsed.val
       IN  IF ~payload.chainId.some
           THEN Return(fail_result(ERR_INVALID_PROOF_PAYLOAD)) /\ UNCHANGED checks
           ELSE IF input.package_chain_id.some
           THEN LET chain_id_matches == payload.chainId.val = input.package_chain_id.val
                    cs == Append(checks, Check("envelope-chain-id", chain_id_matches))
                IN  IF ~chain_id_matches
                    THEN Return(fail_result(ERR_INVALID_PROOF_PAYLOAD)) /\ checks' = cs
                    ELSE /\ checks' = Append(cs, Check("envelope-network", TRUE))
                         /\ pc' = "envelope_block"
                         /\ UNCHANGED result
           ELSE /\ checks' = Append(checks, Check("envelope-network", TRUE))
                /\ pc' = "envelope_block"
                /\ UNCHANGED result
    /\ UNCHANGED <<input, store, update_index, update_count, parsed, calls>>
    /\ others_idle

(* consensus.rs 455-521, with the block number left unconfirmed *)
EnvelopeBlock_skips_block_number ==
    /\ pc = "envelope_block"
    /\ LET payload == parsed.val
       IN  IF ~payload.block.some
           THEN Return(fail_result(ERR_INVALID_PROOF_PAYLOAD)) /\ UNCHANGED checks
           ELSE IF ~payload.block.val.stateRoot.some
           THEN Return(fail_result(ERR_INVALID_PROOF_PAYLOAD)) /\ UNCHANGED checks
           ELSE IF ~payload.block.val.number.some
           THEN Return(fail_result(ERR_INVALID_PROOF_PAYLOAD)) /\ UNCHANGED checks
           ELSE IF ~parse_hex_u64(payload.block.val.number.val).ok
           THEN Return(fail_result(ERR_INVALID_PROOF_PAYLOAD)) /\ UNCHANGED checks
           ELSE LET envelope_state_root == payload.block.val.stateRoot.val
                    envelope_block_number == parse_hex_u64(payload.block.val.number.val).val
                    package_root_matches ==
                        eq_ignore_ascii_case(envelope_state_root, input.state_root)
                    package_block_matches == envelope_block_number = input.block_number
                    cs1 == Append(checks, Check("envelope-state-root", package_root_matches))
                    cs2 == Append(cs1, Check("envelope-block-number", package_block_matches))
                IN  IF ~package_root_matches
                    THEN Return(fail_result(ERR_INVALID_PROOF_PAYLOAD)) /\ checks' = cs1
                    ELSE checks' = cs2 /\ pc' = "envelope_expected" /\ UNCHANGED result
    /\ UNCHANGED <<input, store, update_index, update_count, parsed, calls>>
    /\ others_idle

(* consensus.rs 455-521 *)
EnvelopeBlock ==
    /\ pc = "envelope_block"
    /\ LET payload == parsed.val
       IN  IF ~payload.block.some
           THEN Return(fail_result(ERR_INVALID_PROOF_PAYLOAD)) /\ UNCHANGED checks
           ELSE IF ~payload.block.val.stateRoot.some
           THEN Return(fail_result(ERR_INVALID_PROOF_PAYLOAD)) /\ UNCHANGED checks
           ELSE IF ~payload.block.val.number.some
           THEN Return(fail_result(ERR_INVALID_PROOF_PAYLOAD)) /\ UNCHANGED checks
           ELSE IF ~parse_hex_u64(payload.block.val.number.val).ok
           THEN Return(fail_result(ERR_INVALID_PROOF_PAYLOAD)) /\ UNCHANGED checks
           ELSE LET envelope_state_root == payload.block.val.stateRoot.val
                    envelope_block_number == parse_hex_u64(payload.block.val.number.val).val
                    package_root_matches ==
                        eq_ignore_ascii_case(envelope_state_root, input.state_root)
                    package_block_matches == envelope_block_number = input.block_number
                    cs1 == Append(checks, Check("envelope-state-root", package_root_matches))
                    cs2 == Append(cs1, Check("envelope-block-number", package_block_matches))
                IN  IF ~package_root_matches
                    THEN Return(fail_result(ERR_INVALID_PROOF_PAYLOAD)) /\ checks' = cs1
                    ELSE IF ~package_block_matches
                    THEN Return(fail_result(ERR_INVALID_PROOF_PAYLOAD)) /\ checks' = cs2
                    ELSE checks' = cs2 /\ pc' = "envelope_expected" /\ UNCHANGED result
    /\ UNCHANGED <<input, store, update_index, update_count, parsed, calls>>
    /\ others_idle

(* consensus.rs 523-563 *)
EnvelopeExpected ==
    /\ pc = "envelope_expected"
    /\ LET envelope_state_root == parsed.val.block.val.stateRoot.val
           envelope_block_number == parse_hex_u64(parsed.val.block.val.number.val).val
           expected == parse_b256(input.expected_state_root)
       IN  IF ~expected.ok
           THEN Return(fail_result(ERR_INVALID_EXPECTED_STATE_ROOT)) /\ UNCHANGED checks
           ELSE LET expected_state_root == format_hex(expected.val)
                    state_root_matches ==
                        eq_ignore_ascii_case(envelope_state_root, expected_state_root)
                    cs == Append(checks, Check("state-root-match", state_root_matches))
                IN  /\ checks' = cs
                    /\ Return(envelope_result(envelope_state_root, envelope_block_number,
                                              state_root_matches, cs))
    /\ UNCHANGED <<input, store, update_index, update_count, parsed, calls>>
    /\ others_idle

----------------------------------------------------------------------------
(* The requests the consensus verifier is exercised with *)
UpperA == Rep(<<"A">>, 2 * B256Len)
ShortHex == <<"0", "x", "1", "2", "3", "4">>

Checkpoints ==
    {None, Some(Prefixed(HexA)), Some(HexA), Some(<<"0", "X">> \o HexA), Some(ShortHex)}

BootstrapMsg(header, committee, proof_ok) ==
    Json([header |-> header, current_sync_committee |-> committee, proof_ok |-> proof_ok])

Bootstraps ==
    {None, Some(NotJson), Some(BootstrapMsg("h1", "c1", TRUE)),
     Some(BootstrapMsg("h1", "c1", FALSE)), Some(BootstrapMsg("h2", "c1", TRUE))}

UpdateMsg(signed_by, next, header, sig_ok) ==
    Json([signed_by |-> signed_by, next_sync_committee |-> next,
          finalized_header |-> header, sig_ok |-> sig_ok])

UpdateMsgs ==
    {NotJson, UpdateMsg("c1", "c2", "h1", TRUE), UpdateMsg("c2", "c1", "h2", TRUE),
     UpdateMsg("c1", "c2", "h1", FALSE)}

UpdateLists == {None} \cup {Some(us) : us \in UNION {[1..n -> UpdateMsgs] : n \in 0..MaxUpdates}}

FinalityMsg(signed_by, header, sig_ok) ==
    Json([signed_by |-> signed_by, finalized_header |-> header, sig_ok |-> sig_ok,
          participants |-> IF sig_ok THEN 400 ELSE 3])

FinalityUpdates ==
    {None, Some(NotJson), Some(FinalityMsg("c1", "h1", TRUE)), Some(FinalityMsg("c2", "h2", TRUE)),
     Some(FinalityMsg("c1", "h3", TRUE)), Some(FinalityMsg("c1", "h1", FALSE))}

ExpectedRoots == {Prefixed(HexA), Prefixed(UpperA), HexA, Prefixed(HexB), ShortHex}

BeaconInputs ==
    [checkpoint : Checkpoints,
     bootstrap : Bootstraps,
     updates : UpdateLists,
     finality_update : FinalityUpdates,
     consensus_mode : {"beacon"},
     network : {"mainnet", "xdai", "polygon"},
     proof_payload : {None},
     state_root : {Prefixed(HexA)},
     expected_state_root : ExpectedRoots,
     block_number : {1},
     package_chain_id : {None}]

EnvelopeBlocks ==
    {None} \cup
    {Some([stateRoot |-> r, number |-> n]) :
        r \in {None, Some(Prefixed(HexA)), Some(Prefixed(UpperA)), Some(HexA)},
        n \in {None, Some(<<"0", "x", "1">>), Some(<<"0", "x">>), Some(<<"2">>)}}

Payloads ==
    {None, Some(NotJson)} \cup
    {Some(Json([consensusMode |-> m, chainId |-> c, block |-> b])) :
        m \in {None, Some("opstack"), Some("linea")},
        c \in {None, Some(10)},
        b \in EnvelopeBlocks}

EnvelopeInputs ==
    [checkpoint : {None},
     bootstrap : {None},
     updates : {None},
     finality_update : {None},
     consensus_mode : {"opstack", "linea"},
     network : {"optimism", "mainnet"},
     proof_payload : Payloads,
     state_root : {Prefixed(HexA), HexA, Prefixed(HexB)},
     expected_state_root : ExpectedRoots,
     block_number : {1, 2},
     package_chain_id : {None, Some(10), Some(8453)}]

ConsensusInit ==
    /\ input \in BeaconInputs \cup EnvelopeInputs
    /\ pc = "start"
    /\ store = DefaultStore
    /\ checks = <<>>
    /\ update_index = 0
    /\ update_count = 0
    /\ parsed = None
    /\ calls = <<>>
    /\ result = None

ConsensusNext ==
    \/ Dispatch
    \/ ParseCheckpoint
    \/ ParseBootstrap
    \/ VerifyBootstrap
    \/ ApplyBootstrap
    \/ ParseUpdate
    \/ VerifyUpdate
    \/ EndUpdates
    \/ ParseFinality
    \/ VerifyFinality
    \/ ApplyFinality
    \/ ExtractAndCompare
    \/ EnvelopePayload
    \/ EnvelopeChainId
    \/ EnvelopeBlock
    \/ EnvelopeExpected

ReplayIdleInit ==
    /\ rinput = None
    /\ rpc = "idle"
    /\ replay = None
    /\ compared = <<>>
    /\ rresult = None
    /\ evm = NoEvm

CodecIdleInit ==
    /\ codec_in = <<>>
    /\ codec_out = <<>>

SlotIdleInit ==
    /\ slot_in = None
    /\ current_slot = None

InspectorIdleInit ==
    /\ frame_stack = <<>>
    /\ finalized = <<>>
    /\ open_inputs = <<>>
    /\ frames = <<>>
    /\ events = <<>>
    /\ reported = None

Init == ConsensusInit /\ ReplayIdleInit /\ InspectorIdleInit /\ CodecIdleInit /\ SlotIdleInit
Next == ConsensusNext
Spec == Init /\ [][Next]_vars

----------------------------------------------------------------------------
(* What a beacon request is expected to go through, computed from the       *)
(* request alone by folding the update chain.                               *)

Done == pc = "done" /\ result.some
Beacon == input.consensus_mode = "beacon"
SupportedNetworks == {"mainnet", "sepolia", "holesky", "hoodi", "gnosis", "xdai"}

BootstrapStagesOk(inp) ==
    /\ inp.network \in SupportedNetworks
    /\ inp.checkpoint.some
    /\ parse_b256(inp.checkpoint.val).ok
    /\ inp.bootstrap.some
    /\ inp.bootstrap.val.parses
    /\ verify_bootstrap(inp.bootstrap.val.val, parse_b256(inp.checkpoint.val).val)

RECURSIVE StoreAfter(_, _)
StoreAfter(inp, k) ==
    IF k = 0 THEN apply_bootstrap(DefaultStore, inp.bootstrap.val.val)
    ELSE apply_update(StoreAfter(inp, k - 1), updates_of(inp)[k].val)

UpdateOk(inp, k) ==
    /\ updates_of(inp)[k].parses
    /\ verify_update(updates_of(inp)[k].val, StoreAfter(inp, k - 1))

RECURSIVE UpdatesOkUpTo(_, _)
UpdatesOkUpTo(inp, k) == k = 0 \/ (UpdatesOkUpTo(inp, k - 1) /\ UpdateOk(inp, k))

NumUpdates(inp) == Len(updates_of(inp))

SomeUpdateFails(inp) == BootstrapStagesOk(inp) /\ ~UpdatesOkUpTo(inp, NumUpdates(inp))

(* 1-based position of the first update that fails *)
FirstFailingUpdate(inp) ==
    CHOOSE k \in 1..NumUpdates(inp) : UpdatesOkUpTo(inp, k - 1) /\ ~UpdateOk(inp, k)

FinalityReached(inp) ==
    /\ BootstrapStagesOk(inp)
    /\ UpdatesOkUpTo(inp, NumUpdates(inp))
    /\ inp.finality_update.some
    /\ inp.finality_update.val.parses

FinalityVerifies(inp) ==
    verify_finality_update(inp.finality_update.val.val, StoreAfter(inp, NumUpdates(inp)))

AllStagesSucceed(inp) ==
    /\ FinalityReached(inp)
    /\ FinalityVerifies(inp)
    /\ execution(inp.finality_update.val.val.finalized_header).ok
    /\ parse_b256(inp.expected_state_root).ok

ExtractedExecution(inp) == execution(inp.finality_update.val.val.finalized_header).val

RootsEqual(inp) ==
    ExtractedExecution(inp).state_root = parse_b256(inp.expected_state_root).val

UpdateOps == {"parse_update", "verify_update", "apply_update"}
FinalityOps == {"parse_finality_update", "verify_finality_update", "apply_finality_update"}
IsUpdateCall(c) == c.op \in UpdateOps
UpdateCalls == SelectSeq(calls, IsUpdateCall)

(* the library calls of a run whose first failing update is at position k *)
RECURSIVE ExpectedUpdateCalls(_, _, _)
ExpectedUpdateCalls(inp, j, k) ==
    IF j > k THEN <<>>
    ELSE IF j < k
    THEN <<Call("parse_update", j - 1, TRUE), Call("verify_update", j - 1, TRUE),
           Call("apply_update", j - 1, TRUE)>> \o ExpectedUpdateCalls(inp, j + 1, k)
    ELSE IF ~updates_of(inp)[k].parses
    THEN <<Call("parse_update", k - 1, FALSE)>>
    ELSE <<Call("parse_update", k - 1, TRUE), Call("verify_update", k - 1, FALSE)>>

----------------------------------------------------------------------------
(* C1: in beacon mode the returned result has valid=true exactly when every
   stage succeeded and the execution state root extracted from the
   finalized header equals expectedStateRoot; when every stage succeeded and
   the roots differ the result is valid=false with state-root-mismatch and
   still reports the extracted root and block number. *)
C1_ValidIffStagesAndRootMatch ==
    (Done /\ Beacon) =>
        /\ result.val.valid <=> (AllStagesSucceed(input) /\ RootsEqual(input))
        /\ (AllStagesSucceed(input) /\ ~RootsEqual(input)) =>
              /\ ~result.val.valid
              /\ result.val.error_code = Some(ERR_STATE_ROOT_MISMATCH)
              /\ result.val.verified_state_root
                    = Some(format_hex(ExtractedExecution(input).state_root))
              /\ result.val.verified_block_number
                    = Some(ExtractedExecution(input).block_number)

C1_Witness ==
    /\ Done /\ Beacon
    /\ result.val.valid
    /\ NumUpdates(input) >= 1
    /\ input.expected_state_root = Prefixed(UpperA)

(* C2 as stated: a non-beacon request whose envelope passes every structural
   check and whose state root equals expectedStateRoot (compared ignoring
   letter case) yields stateRootMatches=true, valid=false and
   unsupported-consensus-mode. *)
StructurallyValidEnvelope(inp) ==
    /\ inp.proof_payload.some
    /\ inp.proof_payload.val.parses
    /\ LET payload == inp.proof_payload.val.val
       IN  /\ payload.consensusMode = Some(inp.consensus_mode)
           /\ payload.chainId.some
           /\ inp.package_chain_id.some => payload.chainId = inp.package_chain_id
           /\ payload.block.some
           /\ payload.block.val.stateRoot.some
           /\ payload.block.val.number.some
           /\ parse_hex_u64(payload.block.val.number.val) = Ok(inp.block_number)
           /\ eq_ignore_ascii_case(payload.block.val.stateRoot.val, inp.state_root)

EnvelopeRoot(inp) == inp.proof_payload.val.val.block.val.stateRoot.val

C2_EnvelopeRootMatchReported ==
    (Done /\ ~Beacon /\ StructurallyValidEnvelope(input)
          /\ eq_ignore_ascii_case(EnvelopeRoot(input), input.expected_state_root)) =>
        /\ result.val.state_root_matches
        /\ ~result.val.valid
        /\ result.val.error_code = Some(ERR_UNSUPPORTED_CONSENSUS_MODE)

(* C6: in beacon mode the updates are handled in the supplied order and the
   first update that fails to parse or to verify against the current store
   ends the run: the library calls on updates are exactly parse, verify and
   apply of the updates before it followed by the failing parse or verify,
   the finality update is never touched, and the result is valid=false
   with the matching error code and no verified root or block number. *)
C6_FirstFailingUpdateHalts ==
    (Done /\ Beacon /\ SomeUpdateFails(input)) =>
        LET k == FirstFailingUpdate(input)
        IN  /\ UpdateCalls = ExpectedUpdateCalls(input, 1, k)
            /\ \A n \in 1..Len(calls) : calls[n].op \notin FinalityOps
            /\ store = StoreAfter(input, k - 1)
            /\ ~result.val.valid
            /\ result.val.verified_state_root = None
            /\ result.val.verified_block_number = None
            /\ result.val.error_code =
                  IF updates_of(input)[k].parses
                  THEN Some(ERR_UPDATE_VERIFICATION_FAILED)
                  ELSE Some(ERR_INVALID_UPDATE)

C6_Witness ==
    /\ Done /\ Beacon
    /\ SomeUpdateFails(input)
    /\ NumUpdates(input) = 2
    /\ FirstFailingUpdate(input) = 1
    /\ result.val.error_code = Some(ERR_UPDATE_VERIFICATION_FAILED)

(* C7 as stated: whenever the verifier stops at a failing stage, the checks
   of the result are the checks recorded up to the failure. *)
C7_PartialChecksReturned ==
    (Done /\ ~result.val.valid) => result.val.checks = checks

(* C8 as stated: every request whose network is not a supported one fails
   with unsupported-network. *)
C8_UnknownNetworkRejected ==
    (Done /\ input.network \notin SupportedNetworks) =>
        /\ ~result.val.valid
        /\ result.val.error_code = Some(ERR_UNSUPPORTED_NETWORK)

(* C8 amended: every beacon-mode request whose network is not a supported
   one fails with unsupported-network; a non-beacon request is dispatched to
   the envelope check before the network is looked at. *)
C8_UnknownNetworkRejectedInBeaconMode ==
    /\ (Done /\ Beacon /\ input.network \notin SupportedNetworks) =>
          /\ ~result.val.valid
          /\ result.val.error_code = Some(ERR_UNSUPPORTED_NETWORK)
    /\ (Done /\ ~Beacon) => result.val.error_code # Some(ERR_UNSUPPORTED_NETWORK)

C8_Witness ==
    /\ Done /\ Beacon
    /\ input.network = "polygon"
    /\ result.val.error_code = Some(ERR_UNSUPPORTED_NETWORK)

(* C9 as stated: in beacon mode on a supported network a checkpoint that is
   absent or is not a 0x-prefixed 32-byte hex string is rejected with
   invalid-checkpoint-hash before the bootstrap is parsed or a check is
   recorded. *)
AllHex(s) == \A k \in 1..Len(s) : IsHexChar(s[k])
Is0xPrefixedRoot(s) ==
    /\ Len(s) = 2 + 2 * B256Len
    /\ s[1] = "0" /\ s[2] = "x"
    /\ AllHex(SubSeq(s, 3, Len(s)))
IsBareRoot(s) == Len(s) = 2 * B256Len /\ AllHex(s)

RejectedAtCheckpoint ==
    /\ ~result.val.valid
    /\ result.val.error_code = Some(ERR_INVALID_CHECKPOINT)
    /\ calls = <<>>
    /\ checks = <<>>
    /\ result.val.checks = <<>>

C9_BadCheckpointRejected ==
    (Done /\ Beacon /\ input.network \in SupportedNetworks
          /\ (~input.checkpoint.some \/ ~Is0xPrefixedRoot(input.checkpoint.val))) =>
        RejectedAtCheckpoint

(* C9 amended: in beacon mode on a supported network a checkpoint that is
   absent or is not 64 hex digits with an optional 0x prefix is rejected
   with invalid-checkpoint-hash before the bootstrap is parsed or a check
   is recorded; 64 hex digits without the prefix are accepted. *)
C9_BadCheckpointRejectedPrefixOptional ==
    /\ (Done /\ Beacon /\ input.network \in SupportedNetworks
             /\ (~input.checkpoint.some
                 \/ ~(Is0xPrefixedRoot(input.checkpoint.val) \/ IsBareRoot(input.checkpoint.val)))) =>
          RejectedAtCheckpoint
    /\ (Done /\ Beacon /\ input.network \in SupportedNetworks
             /\ input.checkpoint.some /\ IsBareRoot(input.checkpoint.val)) =>
          result.val.error_code # Some(ERR_INVALID_CHECKPOINT)

C9_Witness ==
    /\ Done /\ Beacon
    /\ input.checkpoint = Some(ShortHex)
    /\ input.bootstrap.some
    /\ result.val.error_code = Some(ERR_INVALID_CHECKPOINT)

(* C10: a beacon request whose bootstrap and updates verify and whose
   finality update fails verification yields valid=false,
   finality-verification-failed, stateRootMatches=false and no extracted
   root or block number, and the finality update is never applied: the
   store is the one left by the updates. *)
C10_FailedFinalityNotApplied ==
    (Done /\ Beacon /\ FinalityReached(input) /\ ~FinalityVerifies(input)) =>
        /\ ~result.val.valid
        /\ result.val.error_code = Some(ERR_FINALITY_VERIFICATION_FAILED)
        /\ ~result.val.state_root_matches
        /\ result.val.verified_state_root = None
        /\ result.val.verified_block_number = None
        /\ \A n \in 1..Len(calls) : calls[n].op # "apply_finality_update"
        /\ store = StoreAfter(input, NumUpdates(input))

C10_Witness ==
    /\ Done /\ Beacon
    /\ FinalityReached(input) /\ ~FinalityVerifies(input)
    /\ NumUpdates(input) >= 1
    /\ input.finality_update.val.val.sig_ok
    /\ result.val.error_code = Some(ERR_FINALITY_VERIFICATION_FAILED)

ApplyOps == {"apply_bootstrap", "apply_update", "apply_finality_update"}
VerifyOps == {"verify_bootstrap", "verify_update", "verify_finality_update"}

(* a step that writes the store *)
StoreWritten ==
    \/ store' # store
    \/ Len(calls') > Len(calls) /\ calls'[Len(calls')].op \in ApplyOps

(* a step whose last library call is a verification that failed *)
VerificationFailed ==
    /\ Len(calls') > Len(calls)
    /\ calls'[Len(calls')].op \in VerifyOps
    /\ ~calls'[Len(calls')].ok

(* the three ways the store may be written: each applies the message that
   the preceding call verified against the store as it is now *)
StoreAdvance ==
    \/ /\ pc = "store_init"
       /\ calls[Len(calls)] = Call("verify_bootstrap", 0, TRUE)
       /\ BootstrapStagesOk(input)
       /\ store = DefaultStore
       /\ store' = apply_bootstrap(DefaultStore, input.bootstrap.val.val)
       /\ calls' = Append(calls, Call("apply_bootstrap", 0, TRUE))
    \/ /\ pc = "update_verify"
       /\ BootstrapStagesOk(input)
       /\ UpdatesOkUpTo(input, update_index + 1)
       /\ store = StoreAfter(input, update_index)
       /\ verify_update(updates_of(input)[update_index + 1].val, store)
       /\ store' = apply_update(store, updates_of(input)[update_index + 1].val)
       /\ calls' = calls \o <<Call("verify_update", update_index, TRUE),
                              Call("apply_update", update_index, TRUE)>>
    \/ /\ pc = "finality_apply"
       /\ calls[Len(calls)] = Call("verify_finality_update", 0, TRUE)
       /\ FinalityReached(input)
       /\ store = StoreAfter(input, NumUpdates(input))
       /\ verify_finality_update(input.finality_update.val.val, store)
       /\ store' = apply_finality_update(store, input.finality_update.val.val)
       /\ calls' = Append(calls, Call("apply_finality_update", 0, TRUE))

(* C18: the light-client store is written only by applying a message that
   has just verified against the store's current state: the bootstrap after
   verify_bootstrap succeeded, update i after verify_update succeeded for it
   against the store left by updates 0..i-1, the finality update after
   verify_finality_update succeeded; a step in which a verification fails
   leaves the store unchanged and ends the call. *)
C18_StoreWrittenOnlyByVerifiedMessage ==
    [][/\ StoreWritten => StoreAdvance
       /\ VerificationFailed => (store' = store /\ pc' = "done")]_vars

C18_Witness ==
    /\ Done /\ Beacon
    /\ FinalityReached(input) /\ FinalityVerifies(input)
    /\ NumUpdates(input) = MaxUpdates
    /\ StoreAfter(input, 1) # StoreAfter(input, 0)
    /\ store = apply_finality_update(StoreAfter(input, NumUpdates(input)),
                                     input.finality_update.val.val)
    /\ store # StoreAfter(input, NumUpdates(input))
    /\ calls[Len(calls)] = Call("apply_finality_update", 0, TRUE)

(* the confirmations of the envelope against the package, read off the
   request: the payload is present and parses, declares the package's mode,
   carries a chainId, and embeds the package's state root (letter case
   aside) and block number *)
PayloadOf(inp) == inp.proof_payload.val.val

SameTextUpToCase(a, b) ==
    /\ Len(a) = Len(b)
    /\ \A k \in 1..Len(a) :
          \/ a[k] = b[k]
          \/ \E j \in 1..Len(AsciiUpper) : {a[k], b[k]} = {AsciiUpper[j], AsciiLower[j]}

ModeConfirmed(inp) ==
    /\ inp.proof_payload.some
    /\ inp.proof_payload.val.parses
    /\ PayloadOf(inp).consensusMode.some
    /\ PayloadOf(inp).consensusMode.val = inp.consensus_mode

ChainIdEqual(inp) ==
    /\ PayloadOf(inp).chainId.some
    /\ inp.package_chain_id.some
    /\ PayloadOf(inp).chainId.val = inp.package_chain_id.val

ChainIdPresent(inp) == PayloadOf(inp).chainId.some

RootAndNumberConfirmed(inp) ==
    /\ PayloadOf(inp).block.some
    /\ LET block == PayloadOf(inp).block.val
       IN  /\ block.stateRoot.some
           /\ block.number.some
           /\ SameTextUpToCase(block.stateRoot.val, inp.state_root)
           /\ parse_hex_u64(block.number.val) = Ok(inp.block_number)

UnsupportedMode == result.val.error_code = Some(ERR_UNSUPPORTED_CONSENSUS_MODE)
InvalidPayload == result.val.error_code = Some(ERR_INVALID_PROOF_PAYLOAD)

(* C19 as stated: in a non-beacon mode unsupported-consensus-mode is
   returned only after the payload's mode, its chainId, and its embedded
   state root and block number were each confirmed equal to the package's;
   a missing payload, a missing field or a failed confirmation yields
   invalid-proof-payload. *)
C19_UnsupportedOnlyAfterConfirmations ==
    (Done /\ ~Beacon) =>
        LET confirmed == /\ ModeConfirmed(input)
                         /\ ChainIdEqual(input)
                         /\ RootAndNumberConfirmed(input)
        IN  /\ UnsupportedMode => confirmed
            /\ ~confirmed => InvalidPayload

(* C19 amended: the chainId is confirmed equal to the package chainId when
   the package carries one; without a package chainId the payload only has
   to carry a chainId. *)
C19_UnsupportedOnlyAfterApplicableConfirmations ==
    (Done /\ ~Beacon) =>
        LET confirmed == /\ ModeConfirmed(input)
                         /\ IF input.package_chain_id.some
                            THEN ChainIdEqual(input)
                            ELSE ChainIdPresent(input)
                         /\ RootAndNumberConfirmed(input)
        IN  /\ UnsupportedMode => confirmed
            /\ ~confirmed => InvalidPayload

C19_Witness ==
    /\ Done /\ ~Beacon
    /\ UnsupportedMode
    /\ ChainIdEqual(input)
    /\ PayloadOf(input).block.val.stateRoot.val # input.state_root
    /\ \E n \in 1..Len(checks) : checks[n] = Check("envelope-chain-id", TRUE)
    /\ \E n \in 1..Len(checks) : checks[n] = Check("envelope-block-number", TRUE)

(* the thirteen error codes of the consensus verifier *)
ListedErrorCodes ==
    {"unsupported-network", "unsupported-consensus-mode", "invalid-checkpoint-hash",
     "invalid-bootstrap-json", "bootstrap-verification-failed", "invalid-update-json",
     "update-verification-failed", "invalid-finality-update-json",
     "finality-verification-failed", "missing-execution-payload",
     "invalid-expected-state-root", "state-root-mismatch", "invalid-proof-payload"}

(* C29: every result of verify_consensus_proof has an error code, one of the
   thirteen listed, and an error message exactly when valid=false;
   valid=true implies beacon mode, stateRootMatches=true and a verified
   state root and block number; in beacon mode stateRootMatches=true
   implies valid=true. *)
C29_ConsensusResultConsistent ==
    Done =>
        LET r == result.val
        IN  /\ r.error_code.some <=> ~r.valid
            /\ r.error.some <=> ~r.valid
            /\ r.error_code.some => r.error_code.val \in ListedErrorCodes
            /\ r.valid => /\ Beacon
                          /\ r.state_root_matches
                          /\ r.verified_state_root.some
                          /\ r.verified_block_number.some
            /\ (Beacon /\ r.state_root_matches) => r.valid

C29_Witness ==
    /\ Done /\ Beacon
    /\ ~result.val.valid
    /\ result.val.error_code = Some("update-verification-failed")
    /\ result.val.error.some
    /\ result.val.checks # <<>>
    /\ ~result.val.verified_state_root.some

----------------------------------------------------------------------------
(* Shared codec of simulation_replay.rs *)

IsWhitespace(c) == c = " "

RECURSIVE trim_start(_)
trim_start(s) == IF Len(s) > 0 /\ IsWhitespace(s[1]) THEN trim_start(Tail(s)) ELSE s

RECURSIVE trim_end(_)
trim_end(s) ==
    IF Len(s) > 0 /\ IsWhitespace(s[Len(s)]) THEN trim_end(SubSeq(s, 1, Len(s) - 1)) ELSE s

trim(s) == trim_end(trim_start(s))

normalize_address(value) == to_ascii_lowercase(value)

(* normalize_hex that adds the prefix without removing an existing one *)
normalize_hex_without_strip(value) ==
    LET trimmed == trim(value)
    IN  IF Len(trimmed) = 0 THEN <<"0", "x">>
        ELSE <<"0", "x">> \o to_ascii_lowercase(trimmed)

normalize_hex(value) ==
    LET trimmed == trim(value)
        without_prefix == strip_prefix_0x(trimmed)
    IN  IF Len(without_prefix) = 0 THEN <<"0", "x">>
        ELSE <<"0", "x">> \o to_ascii_lowercase(without_prefix)

to_hex_prefixed(bytes) ==
    IF Len(bytes) = 0 THEN <<"0", "x">> ELSE <<"0", "x">> \o hex_encode(bytes)

normalize_simulation_logs(logs) ==
    [k \in 1..Len(logs) |->
        [address |-> normalize_address(logs[k].address),
         topics |-> [t \in 1..Len(logs[k].topics) |-> normalize_hex(logs[k].topics[t])],
         data |-> normalize_hex(logs[k].data)]]

DecDigits == <<"0","1","2","3","4","5","6","7","8","9">>
IsDecChar(c) == \E k \in 1..10 : DecDigits[k] = c

----------------------------------------------------------------------------
(* Unsigned integers of 64, 128 and 256 bits (u64, u128, U256).             *)
(*                                                                          *)
(* A value is the sequence of its base-16 digits, least significant first,  *)
(* without high zero digits; <<>> is zero.  A value fits w bits when it has *)
(* at most w/4 digits.                                                      *)
U128HexDigits == 32
U256HexDigits == 64

BigNorm(a) ==
    LET nonzero == {k \in 1..Len(a) : a[k] # 0}
    IN  IF nonzero = {} THEN <<>>
        ELSE SubSeq(a, 1, CHOOSE k \in nonzero : \A j \in nonzero : j <= k)

BigDigit(a, k) == IF k \in 1..Len(a) THEN a[k] ELSE 0

RECURSIVE BigFromNat(_)
BigFromNat(n) == IF n = 0 THEN <<>> ELSE <<n % 16>> \o BigFromNat(n \div 16)

(* carry propagation over column sums, low half first *)
RECURSIVE BigPropagate(_, _)
BigPropagate(cols, carry) ==
    IF Len(cols) = 0 THEN [digits |-> <<>>, carry |-> carry]
    ELSE IF Len(cols) = 1
    THEN [digits |-> <<(cols[1] + carry) % 16>>, carry |-> (cols[1] + carry) \div 16]
    ELSE LET m == Len(cols) \div 2
             low == BigPropagate(SubSeq(cols, 1, m), carry)
             high == BigPropagate(SubSeq(cols, m + 1, Len(cols)), low.carry)
         IN  [digits |-> low.digits \o high.digits, carry |-> high.carry]

BigCarried(cols) ==
    LET p == BigPropagate(cols, 0)
    IN  BigNorm(p.digits \o BigFromNat(p.carry))

(* the exact sum and product of two values *)
BigAdd(a, b) ==
    LET n == IF Len(a) > Len(b) THEN Len(a) ELSE Len(b)
    IN  BigCarried([k \in 1..n |-> BigDigit(a, k) + BigDigit(b, k)])

RECURSIVE BigColumn(_, _, _, _, _)
BigColumn(a, b, k, from, to) ==
    IF from > to THEN 0
    ELSE IF from = to THEN BigDigit(a, from) * BigDigit(b, k + 1 - from)
    ELSE LET m == (from + to) \div 2
         IN  BigColumn(a, b, k, from, m) + BigColumn(a, b, k, m + 1, to)

BigMul(a, b) ==
    IF Len(a) = 0 \/ Len(b) = 0 THEN <<>>
    ELSE BigCarried([k \in 1..(Len(a) + Len(b) - 1) |-> BigColumn(a, b, k, 1, Len(a))])

BigLess(a, b) ==
    IF Len(a) # Len(b) THEN Len(a) < Len(b)
    ELSE \E k \in 1..Len(a) : a[k] < b[k] /\ \A j \in (k + 1)..Len(a) : a[j] = b[j]

BigFits(a, digits) == Len(a) <= digits

(* reduction modulo 2^(4 * digits) *)
BigWrap(a, digits) ==
    BigNorm(SubSeq(a, 1, IF Len(a) < digits THEN Len(a) ELSE digits))

(* Uint::wrapping_mul, Uint::wrapping_add: the * and + of U256 *)
U256Mul(a, b) == BigWrap(BigMul(a, b), U256HexDigits)
U256Add(a, b) == BigWrap(BigAdd(a, b), U256HexDigits)

U64Max == [k \in 1..U64HexDigits |-> 15]

(* Uint::to::<u64>() aborts when the value does not fit *)
to_u64(a) == IF BigFits(a, U64HexDigits) THEN Ok(a) ELSE Err

BigFromHex(s) == BigNorm([k \in 1..Len(s) |-> HexVal(s[Len(s) + 1 - k])])

RECURSIVE BigPow10(_)
BigPow10(n) ==
    IF n = 0 THEN <<1>>
    ELSE IF n % 2 = 0 THEN LET h == BigPow10(n \div 2) IN BigMul(h, h)
    ELSE BigMul(<<10>>, BigPow10(n - 1))

RECURSIVE BigFromDecimal(_)
BigFromDecimal(s) ==
    IF Len(s) = 0 THEN <<>>
    ELSE IF Len(s) = 1 THEN BigFromNat(HexVal(s[1]))
    ELSE LET m == Len(s) \div 2
             high == SubSeq(s, 1, m)
             low == SubSeq(s, m + 1, Len(s))
         IN  BigAdd(BigMul(BigFromDecimal(high), BigPow10(Len(low))), BigFromDecimal(low))

(* Uint::from_str_radix for radix 10 and 16: underscores are skipped, each
   digit must be below the radix, the value must be below 2^256 *)
U256_from_str_radix(src, radix) ==
    LET s == SelectSeq(src, LAMBDA c : c # "_")
    IN  IF \E k \in 1..Len(s) : ~(IF radix = 16 THEN IsHexChar(s[k]) ELSE IsDecChar(s[k]))
        THEN Err
        ELSE LET v == IF radix = 16 THEN BigFromHex(s) ELSE BigFromDecimal(s)
             IN  IF BigFits(v, U256HexDigits) THEN Ok(v) ELSE Err

(* parse_u256: trimmed; "0x" selects radix 16, anything else radix 10 *)
parse_u256(raw) ==
    LET trimmed == trim(raw)
    IN  IF Len(trimmed) >= 2 /\ trimmed[1] = "0" /\ trimmed[2] = "x"
        THEN U256_from_str_radix(SubSeq(trimmed, 3, Len(trimmed)), 16)
        ELSE U256_from_str_radix(trimmed, 10)

----------------------------------------------------------------------------
(* Reason codes, simulation_replay.rs *)
REASON_REPLAY_MATCHED == "simulation-replay-matched"
REASON_REPLAY_EXEC_ERROR == "simulation-replay-exec-error"
REASON_REPLAY_MISMATCH_SUCCESS == "simulation-replay-mismatch-success"
REASON_REPLAY_MISMATCH_RETURN_DATA == "simulation-replay-mismatch-return-data"
REASON_REPLAY_MISMATCH_LOGS == "simulation-replay-mismatch-logs"
REASON_REPLAY_MISMATCH_GAS == "simulation-replay-mismatch-gas"
REASON_WITNESS_INCOMPLETE == "simulation-witness-incomplete"

AddressLen == 20
ZeroAddress == Prefixed(Rep(<<"0">>, 2 * AddressLen))

(* into_simulation_log: address, topics and data printed as lowercase hex *)
into_simulation_log(log) ==
    [address |-> format_hex(log.address),
     topics |-> [t \in 1..Len(log.topics) |-> format_hex(log.topics[t])],
     data |-> to_hex_prefixed(log.data)]

HaltTopic == <<"h","a","l","t",":","O","u","t","O","f","G","a","s">>

(* extract_execution reporting a halt without the synthetic log *)
extract_execution_halt_without_log(outcome, native_transfers) ==
    CASE outcome.kind = "Success" ->
            [success |-> TRUE,
             return_data |-> to_hex_prefixed(outcome.output),
             gas_used |-> outcome.gas_used,
             logs |-> [k \in 1..Len(outcome.logs) |-> into_simulation_log(outcome.logs[k])],
             native_transfers |-> native_transfers]
      [] outcome.kind = "Revert" ->
            [success |-> FALSE,
             return_data |-> to_hex_prefixed(outcome.output),
             gas_used |-> outcome.gas_used,
             logs |-> <<>>,
             native_transfers |-> <<>>]
      [] OTHER ->
            [success |-> FALSE,
             return_data |-> <<"0", "x">>,
             gas_used |-> outcome.gas_used,
             logs |-> <<>>,
             native_transfers |-> <<>>]

(* extract_execution: ExecutionResult -> ReplayExecution *)
extract_execution(outcome, native_transfers) ==
    CASE outcome.kind = "Success" ->
            [success |-> TRUE,
             return_data |-> to_hex_prefixed(outcome.output),
             gas_used |-> outcome.gas_used,
             logs |-> [k \in 1..Len(outcome.logs) |-> into_simulation_log(outcome.logs[k])],
             native_transfers |-> native_transfers]
      [] outcome.kind = "Revert" ->
            [success |-> FALSE,
             return_data |-> to_hex_prefixed(outcome.output),
             gas_used |-> outcome.gas_used,
             logs |-> <<>>,
             native_transfers |-> <<>>]
      [] OTHER ->
            [success |-> FALSE,
             return_data |-> <<"0", "x">>,
             gas_used |-> outcome.gas_used,
             logs |-> <<[address |-> ZeroAddress, topics |-> <<HaltTopic>>,
                         data |-> <<"0", "x">>]>>,
             native_transfers |-> <<>>]

(* a pre-execution result that always reports executed=false *)
pre_execution_result_not_executed(executed, reason, error) ==
    [executed |-> FALSE,
     success |-> FALSE,
     reason |-> reason,
     error |-> Some(error),
     replay_logs |-> None,
     replay_native_transfers |-> None]

(* simulation_replay.rs 232-243, 248-255: results built before execution *)
pre_execution_result(executed, reason, error) ==
    [executed |-> executed,
     success |-> FALSE,
     reason |-> reason,
     error |-> Some(error),
     replay_logs |-> None,
     replay_native_transfers |-> None]

(* a post-execution result that leaves the native transfers out *)
post_execution_result_without_transfers(success, reason, rp) ==
    [executed |-> TRUE,
     success |-> success,
     reason |-> reason,
     error |-> IF success THEN None ELSE Some(reason),
     replay_logs |-> Some(rp.logs),
     replay_native_transfers |-> None]

(* the result literals of the post-execution branches *)
post_execution_result(success, reason, rp) ==
    [executed |-> TRUE,
     success |-> success,
     reason |-> reason,
     error |-> IF success THEN None ELSE Some(reason),
     replay_logs |-> Some(rp.logs),
     replay_native_transfers |-> Some(rp.native_transfers)]

ReplayReturn(r) == rresult' = Some(r) /\ rpc' = "done"

(* Result<_, String> carrying its message *)
Error(msg) == [ok |-> FALSE, err |-> msg]

(* Address::from_str: 40 hex digits, with or without the 0x prefix *)
parse_address(raw) ==
    LET d == hex_decode(strip_prefix_0x(raw))
    IN  IF ~d.ok THEN Err
        ELSE IF Len(d.val) # AddressLen THEN Err
        ELSE d

witness_only_of(inp) ==
    IF inp.simulation_witness.witness_only.some
    THEN inp.simulation_witness.witness_only.val
    ELSE FALSE

(* parse_bytes: trimmed, one optional "0x", an even number of hex digits *)
parse_bytes(raw) ==
    LET stripped == strip_prefix_0x(trim(raw))
    IN  IF Len(stripped) % 2 # 0 THEN Err ELSE hex_decode(stripped)

(* B256::from_str: 64 hex digits, with or without the 0x prefix *)
B256_from_str(raw) ==
    LET d == hex_decode(strip_prefix_0x(raw))
    IN  IF ~d.ok THEN Err
        ELSE IF Len(d.val) # B256Len THEN Err
        ELSE d

(* a call that ended in a panic instead of returning *)
Panic == [ok |-> FALSE, panic |-> TRUE]
IsPanic(r) == "panic" \in DOMAIN r

(* CacheDB<EmptyDB>: address -> [info, storage] *)
EmptyDB == <<>>

insert_account_info(db, address, info) ==
    [a \in DOMAIN db \cup {address} |->
        IF a = address
        THEN [info |-> info,
              storage |-> IF address \in DOMAIN db THEN db[address].storage ELSE <<>>]
        ELSE db[a]]

insert_account_storage(db, address, slot, value) ==
    [db EXCEPT ![address].storage =
        [k \in DOMAIN @ \cup {slot} |-> IF k = slot THEN value ELSE @[k]]]

AccountInfo(balance, nonce, code) == [balance |-> balance, nonce |-> nonce, code |-> code]

(* simulation_replay.rs 354-356: the first witness account whose address
   parses to the caller *)
find_caller_account(accounts, caller) ==
    LET matching == {k \in 1..Len(accounts) : parse_address(accounts[k].address) = Ok(caller)}
    IN  IF matching = {} THEN None
        ELSE Some(accounts[CHOOSE k \in matching : \A j \in matching : k <= j])

DefaultGasLimit == BigFromNat(3000000)

(* simulation_replay.rs 368-384 without the cap at u64::MAX *)
gas_limit_uncapped(inp) ==
    IF inp.simulation_witness.replay_gas_limit.some
    THEN Ok(inp.simulation_witness.replay_gas_limit.val)
    ELSE IF inp.transaction.safe_tx_gas.some
    THEN LET parsed_gas == parse_u256(inp.transaction.safe_tx_gas.val)
         IN  IF ~parsed_gas.ok THEN Error("invalid transaction.safeTxGas")
             ELSE LET as_u64 == to_u64(parsed_gas.val)
                  IN  IF ~as_u64.ok THEN Panic
                      ELSE IF as_u64.val = <<>> THEN Ok(DefaultGasLimit)
                      ELSE as_u64
    ELSE Ok(DefaultGasLimit)

(* simulation_replay.rs 368-384 with a zero safeTxGas kept as the limit *)
gas_limit_keeps_zero(inp) ==
    IF inp.simulation_witness.replay_gas_limit.some
    THEN Ok(inp.simulation_witness.replay_gas_limit.val)
    ELSE IF inp.transaction.safe_tx_gas.some
    THEN LET parsed_gas == parse_u256(inp.transaction.safe_tx_gas.val)
         IN  IF ~parsed_gas.ok THEN Error("invalid transaction.safeTxGas")
             ELSE LET capped == IF BigLess(U64Max, parsed_gas.val) THEN U64Max ELSE parsed_gas.val
                      as_u64 == to_u64(capped)
                  IN  IF ~as_u64.ok THEN Panic ELSE as_u64
    ELSE Ok(DefaultGasLimit)

(* simulation_replay.rs 368-384 *)
gas_limit(inp) ==
    IF inp.simulation_witness.replay_gas_limit.some
    THEN Ok(inp.simulation_witness.replay_gas_limit.val)
    ELSE IF inp.transaction.safe_tx_gas.some
    THEN LET parsed_gas == parse_u256(inp.transaction.safe_tx_gas.val)
         IN  IF ~parsed_gas.ok THEN Error("invalid transaction.safeTxGas")
             ELSE LET capped == IF BigLess(U64Max, parsed_gas.val) THEN U64Max ELSE parsed_gas.val
                      as_u64 == to_u64(capped)
                  IN  IF ~as_u64.ok THEN Panic
                      ELSE IF as_u64.val = <<>> THEN Ok(DefaultGasLimit)
                      ELSE as_u64
    ELSE Ok(DefaultGasLimit)

resolve_replay_gas_price(inp) ==
    IF ~inp.simulation_witness.replay_block.some THEN Ok(<<>>)
    ELSE LET basefee == parse_u256(inp.simulation_witness.replay_block.val.base_fee_per_gas)
         IN  IF ~basefee.ok THEN Error("invalid simulationWitness.replayBlock.baseFeePerGas")
             ELSE IF ~BigFits(basefee.val, U128HexDigits)
             THEN Error("simulationWitness.replayBlock.baseFeePerGas exceeds u128 range.")
             ELSE basefee

(* simulation_replay.rs 418-425: the storage slots of one account, in key
   order *)
RECURSIVE seed_storage(_, _, _)
seed_storage(slots, address, db) ==
    IF Len(slots) = 0 THEN Ok(db)
    ELSE LET slot_key == parse_u256(slots[1].slot)
             slot_value == parse_u256(slots[1].value)
         IN  IF ~slot_key.ok THEN Error("invalid storage key")
             ELSE IF ~slot_value.ok THEN Error("invalid storage value")
             ELSE seed_storage(Tail(slots), address,
                               insert_account_storage(db, address, slot_key.val,
                                                      slot_value.val))

(* simulation_replay.rs 402-426: the witness accounts, in witness order *)
RECURSIVE seed_accounts(_, _, _, _)
seed_accounts(accounts, caller, required_caller_balance, db) ==
    IF Len(accounts) = 0 THEN Ok(db)
    ELSE LET account == accounts[1]
             address == parse_address(account.address)
             balance == parse_u256(account.balance)
             code == parse_bytes(account.code)
         IN  IF ~address.ok THEN Error("invalid replay account address")
             ELSE IF ~balance.ok THEN Error("invalid replay account balance")
             ELSE IF ~code.ok THEN Error("invalid replay account code")
             ELSE LET seeded_balance ==
                          IF address.val = caller
                             /\ BigLess(balance.val, required_caller_balance)
                          THEN required_caller_balance
                          ELSE balance.val
                      with_info ==
                          insert_account_info(db, address.val,
                                              AccountInfo(seeded_balance, account.nonce,
                                                          code.val))
                      with_storage == seed_storage(account.storage, address.val, with_info)
                  IN  IF ~with_storage.ok THEN with_storage
                      ELSE seed_accounts(Tail(accounts), caller, required_caller_balance,
                                         with_storage.val)

(* simulation_replay.rs 482-521 *)
build_replay_block_env(block, block_number) ==
    LET beneficiary == parse_address(block.beneficiary)
        timestamp == parse_u256(block.timestamp)
        gas_limit_u256 == parse_u256(block.gas_limit)
        basefee_u256 == parse_u256(block.base_fee_per_gas)
        prevrandao == IF block.prev_randao.some THEN B256_from_str(block.prev_randao.val)
                      ELSE Ok(<<>>)
        difficulty == IF block.difficulty.some THEN parse_u256(block.difficulty.val)
                      ELSE Ok(<<>>)
    IN  IF ~beneficiary.ok THEN Error("invalid simulationWitness.replayBlock.beneficiary")
        ELSE IF ~timestamp.ok THEN Error("invalid simulationWitness.replayBlock.timestamp")
        ELSE IF ~gas_limit_u256.ok THEN Error("invalid simulationWitness.replayBlock.gasLimit")
        ELSE IF BigLess(U64Max, gas_limit_u256.val)
        THEN Error("simulationWitness.replayBlock.gasLimit exceeds u64 range.")
        ELSE IF ~to_u64(gas_limit_u256.val).ok THEN Panic
        ELSE IF ~basefee_u256.ok
        THEN Error("invalid simulationWitness.replayBlock.baseFeePerGas")
        ELSE IF BigLess(U64Max, basefee_u256.val)
        THEN Error("simulationWitness.replayBlock.baseFeePerGas exceeds u64 range.")
        ELSE IF ~to_u64(basefee_u256.val).ok THEN Panic
        ELSE IF ~prevrandao.ok THEN Error("invalid simulationWitness.replayBlock.prevRandao")
        ELSE IF ~difficulty.ok THEN Error("invalid simulationWitness.replayBlock.difficulty")
        ELSE Ok([number |-> block_number,
                 beneficiary |-> beneficiary.val,
                 timestamp |-> timestamp.val,
                 gas_limit |-> gas_limit_u256.val,
                 basefee |-> basefee_u256.val,
                 difficulty |-> difficulty.val,
                 prevrandao |-> IF block.prev_randao.some THEN Some(prevrandao.val)
                                ELSE None])

(* simulation_replay.rs 536-541: BlockEnv::default() with the block number *)
default_replay_block(block_number) ==
    [number |-> block_number,
     beneficiary |-> hex_decode(Rep(<<"0", "0">>, AddressLen)).val,
     timestamp |-> <<1>>,
     gas_limit |-> U64Max,
     basefee |-> <<>>,
     difficulty |-> <<>>,
     prevrandao |-> Some(hex_decode(Rep(<<"0", "0">>, B256Len)).val)]

MissingBlockError ==
    "simulationWitness.replayBlock is missing; witness-only replay requires full block context."

(* resolve_replay_block falling back to the default block in every mode *)
resolve_replay_block_always_defaults(inp, witness_only) ==
    IF inp.simulation_witness.replay_block.some
    THEN build_replay_block_env(inp.simulation_witness.replay_block.val,
                                inp.simulation.block_number)
    ELSE Ok(default_replay_block(inp.simulation.block_number))

(* simulation_replay.rs 468-480 *)
resolve_replay_block(inp, witness_only) ==
    IF inp.simulation_witness.replay_block.some
    THEN build_replay_block_env(inp.simulation_witness.replay_block.val,
                                inp.simulation.block_number)
    ELSE IF witness_only THEN Error(MissingBlockError)
    ELSE Ok(default_replay_block(inp.simulation.block_number))

DelegatecallError ==
    "transaction.operation=1 (DELEGATECALL) is not replay-supported in the local verifier."

(* the operation match running a DELEGATECALL as a plain call *)
tx_kind_accepts_delegatecall(operation, to) ==
    IF operation \in {0, 1} THEN Ok([call |-> to])
    ELSE Error("invalid transaction.operation: expected 0 (CALL) or 1 (DELEGATECALL)")

(* simulation_replay.rs 386-397 *)
tx_kind(operation, to) ==
    IF operation = 0 THEN Ok([call |-> to])
    ELSE IF operation = 1 THEN Error(DelegatecallError)
    ELSE Error("invalid transaction.operation: expected 0 (CALL) or 1 (DELEGATECALL)")

(* what execute_replay has built when it stops before the EVM call *)
SetupError(msg, db, tx) == [ok |-> FALSE, err |-> msg, db |-> db, tx |-> tx]

(* execute_replay 347-451, up to the EVM call: the first early return
   decides the error *)
(* simulation_replay.rs 399-451: the required balance, the seeded database,
   the transaction and the block, from the parsed fields *)
setup_seeded(inp, caller, caller_account, caller_nonce, inner_value, data, limit, kind, gas_price, required_caller_balance, seeded, block) ==
    LET db == IF ~caller_account.some
              THEN insert_account_info(seeded.val, caller,
                                       AccountInfo(required_caller_balance, caller_nonce, <<>>))
              ELSE seeded.val
        tx == [caller |-> caller,
               kind |-> kind,
               gas_limit |-> limit,
               gas_price |-> gas_price,
               nonce |-> caller_nonce,
               chain_id |-> Some(inp.chain_id),
               value |-> inner_value,
               data |-> data]
    IN  IF ~seeded.ok THEN SetupError(seeded.err, None, None)
        ELSE IF IsPanic(block) THEN Panic
        ELSE IF ~block.ok THEN SetupError(block.err, Some(db), Some(tx))
        ELSE [ok |-> TRUE, db |-> Some(db), tx |-> Some(tx), block |-> Some(block.val)]

setup_priced(inp, accounts, caller, caller_account, inner_value, data, limit, kind, gas_price, required_caller_balance) ==
    setup_seeded(inp, caller, caller_account,
                 IF caller_account.some THEN caller_account.val.nonce ELSE 0,
                 inner_value, data, limit, kind, gas_price, required_caller_balance,
                 seed_accounts(accounts, caller, required_caller_balance, EmptyDB),
                 resolve_replay_block(inp, witness_only_of(inp)))

(* simulation_replay.rs 350-400: the fields in the order they are parsed *)
setup_parsed(inp, accounts, caller, to, inner_value, data, limit, kind, gas_price) ==
    IF ~caller.ok THEN SetupError("invalid caller address", None, None)
    ELSE IF ~to.ok THEN SetupError("invalid transaction.to", None, None)
    ELSE IF ~inner_value.ok THEN SetupError("invalid transaction.value", None, None)
    ELSE IF ~data.ok THEN SetupError("invalid transaction.data", None, None)
    ELSE IF IsPanic(limit) THEN Panic
    ELSE IF ~limit.ok THEN SetupError(limit.err, None, None)
    ELSE IF ~kind.ok THEN SetupError(kind.err, None, None)
    ELSE IF ~gas_price.ok THEN SetupError(gas_price.err, None, None)
    ELSE setup_priced(inp, accounts, caller.val, find_caller_account(accounts, caller.val),
                      inner_value.val, data.val, limit.val, kind.val, gas_price.val,
                      U256Add(U256Mul(limit.val, gas_price.val), inner_value.val))

setup_to(inp, accounts, caller, to) ==
    setup_parsed(inp, accounts, caller, to,
                 parse_u256(inp.transaction.value),
                 IF inp.transaction.data.some THEN parse_bytes(inp.transaction.data.val)
                 ELSE Ok(<<>>),
                 gas_limit(inp),
                 tx_kind(inp.transaction.operation, to.val),
                 resolve_replay_gas_price(inp))

(* simulation_replay.rs 343-466 up to the EVM call *)
execute_replay_setup(inp, accounts) ==
    setup_to(inp, accounts,
             IF inp.simulation_witness.replay_caller.some
             THEN parse_address(inp.simulation_witness.replay_caller.val)
             ELSE parse_address(inp.safe_address),
             parse_address(inp.transaction.to))

----------------------------------------------------------------------------
(* What the embedded EVM can answer to inspect_one_tx *)
MaxReplayGas == 6

EvmLog == [address |-> hex_decode(Rep(<<"2", "0">>, AddressLen)).val,
           topics |-> <<hex_decode(Rep(<<"d", "d">>, B256Len)).val>>,
           data |-> <<42>>]

EvmTransfer == [from |-> Prefixed(Rep(<<"1", "0">>, AddressLen)),
                to |-> Prefixed(Rep(<<"2", "0">>, AddressLen)),
                value |-> <<"1">>]

EvmOutcomes ==
    [kind : {"Success"}, output : {<<>>, <<42>>}, gas_used : (MaxReplayGas - 1)..MaxReplayGas,
     logs : {<<>>, <<EvmLog>>}, native_transfers : {<<>>, <<EvmTransfer>>}]
    \cup
    [kind : {"Revert"}, output : {<<>>, <<42>>}, gas_used : (MaxReplayGas - 1)..MaxReplayGas,
     logs : {<<>>}, native_transfers : {<<>>, <<EvmTransfer>>}]
    \cup
    [kind : {"Halt"}, output : {<<>>}, gas_used : (MaxReplayGas - 1)..MaxReplayGas,
     logs : {<<>>}, native_transfers : {<<>>, <<EvmTransfer>>}]
    \cup
    [kind : {"Error"}, output : {<<>>}, gas_used : {0}, logs : {<<>>}, native_transfers : {<<>>}]

----------------------------------------------------------------------------
(* verify_simulation_replay *)
consensus_idle == UNCHANGED consensus_vars

(* a missing replayAccounts reported as an execution error *)
CheckWitness_reports_exec_error ==
    /\ rpc = "start"
    /\ IF ~rinput.simulation_witness.replay_accounts.some
       THEN ReplayReturn(pre_execution_result(TRUE, REASON_REPLAY_EXEC_ERROR,
                                              "simulationWitness.replayAccounts is missing"))
       ELSE rpc' = "execute" /\ UNCHANGED rresult
    /\ UNCHANGED <<rinput, replay, compared, evm>>
    /\ consensus_idle /\ inspector_idle /\ codec_idle /\ slot_idle

(* simulation_replay.rs 231-243 *)
CheckWitness ==
    /\ rpc = "start"
    /\ IF ~rinput.simulation_witness.replay_accounts.some
       THEN ReplayReturn(pre_execution_result(FALSE, REASON_WITNESS_INCOMPLETE,
                                              "simulationWitness.replayAccounts is missing"))
       ELSE rpc' = "execute" /\ UNCHANGED rresult
    /\ UNCHANGED <<rinput, replay, compared, evm>>
    /\ consensus_idle /\ inspector_idle /\ codec_idle /\ slot_idle

(* simulation_replay.rs 245-257: what verify_simulation_replay does with the
   outcome of execute_replay *)
replay_outcome(setup) ==
    IF IsPanic(setup)
    THEN /\ rpc' = "aborted"
         /\ UNCHANGED <<replay, rresult, evm>>
    ELSE IF ~setup.ok
    THEN /\ replay' = Some(Error(setup.err))
         /\ evm' = [db |-> setup.db, tx |-> setup.tx, block |-> None, outcome |-> None]
         /\ ReplayReturn(pre_execution_result(TRUE, REASON_REPLAY_EXEC_ERROR, setup.err))
    ELSE \E outcome \in EvmOutcomes :
             /\ evm' = [db |-> setup.db, tx |-> setup.tx, block |-> setup.block,
                        outcome |-> Some(outcome)]
             /\ IF outcome.kind = "Error"
                THEN /\ replay' = Some(Error("local replay transaction failed"))
                     /\ ReplayReturn(pre_execution_result(TRUE, REASON_REPLAY_EXEC_ERROR,
                                                          "local replay transaction failed"))
                ELSE /\ replay' = Some(Ok(extract_execution(outcome,
                                                            outcome.native_transfers)))
                     /\ rpc' = "compare_success"
                     /\ UNCHANGED rresult

(* simulation_replay.rs 245-257 with execute_replay 343-466 *)
ExecuteReplay ==
    /\ rpc = "execute"
    /\ replay_outcome(execute_replay_setup(rinput,
                                           rinput.simulation_witness.replay_accounts.val))
    /\ UNCHANGED <<rinput, compared>>
    /\ consensus_idle /\ inspector_idle /\ codec_idle /\ slot_idle

(* simulation_replay.rs 259-273 *)
CompareSuccess ==
    /\ rpc = "compare_success"
    /\ compared' = Append(compared, "success")
    /\ IF replay.val.val.success # rinput.simulation.success
       THEN ReplayReturn(post_execution_result(FALSE, REASON_REPLAY_MISMATCH_SUCCESS,
                                               replay.val.val))
       ELSE rpc' = "compare_return_data" /\ UNCHANGED rresult
    /\ UNCHANGED <<rinput, replay, evm>>
    /\ consensus_idle /\ inspector_idle /\ codec_idle /\ slot_idle

expected_return_data_of(inp) ==
    normalize_hex(IF inp.simulation.return_data.some THEN inp.simulation.return_data.val
                  ELSE <<"0", "x">>)

(* simulation_replay.rs 275-288 *)
CompareReturnData ==
    /\ rpc = "compare_return_data"
    /\ compared' = Append(compared, "return_data")
    /\ IF replay.val.val.return_data # expected_return_data_of(rinput)
       THEN ReplayReturn(post_execution_result(FALSE, REASON_REPLAY_MISMATCH_RETURN_DATA,
                                               replay.val.val))
       ELSE rpc' = "compare_logs" /\ UNCHANGED rresult
    /\ UNCHANGED <<rinput, replay, evm>>
    /\ consensus_idle /\ inspector_idle /\ codec_idle /\ slot_idle

(* the log comparison made in witness-only mode too *)
CompareLogs_ignores_witness_only ==
    /\ rpc = "compare_logs"
    /\ compared' = Append(compared, "logs")
    /\ IF normalize_simulation_logs(replay.val.val.logs)
            # normalize_simulation_logs(rinput.simulation.logs)
       THEN ReplayReturn(post_execution_result(FALSE, REASON_REPLAY_MISMATCH_LOGS,
                                               replay.val.val))
       ELSE rpc' = "compare_gas" /\ UNCHANGED rresult
    /\ UNCHANGED <<rinput, replay, evm>>
    /\ consensus_idle /\ inspector_idle /\ codec_idle /\ slot_idle

(* simulation_replay.rs 290-303 *)
CompareLogs ==
    /\ rpc = "compare_logs"
    /\ IF ~witness_only_of(rinput)
       THEN /\ compared' = Append(compared, "logs")
            /\ IF normalize_simulation_logs(replay.val.val.logs)
                    # normalize_simulation_logs(rinput.simulation.logs)
               THEN ReplayReturn(post_execution_result(FALSE, REASON_REPLAY_MISMATCH_LOGS,
                                                       replay.val.val))
               ELSE rpc' = "compare_gas" /\ UNCHANGED rresult
       ELSE rpc' = "compare_gas" /\ UNCHANGED <<rresult, compared>>
    /\ UNCHANGED <<rinput, replay, evm>>
    /\ consensus_idle /\ inspector_idle /\ codec_idle /\ slot_idle

(* the gas policy as an equality-rejecting bound (>= in place of >) *)
CompareGas_rejects_equal ==
    /\ rpc = "compare_gas"
    /\ LET expected_gas_used == parse_u256(rinput.simulation.gas_used)
       IN  IF ~expected_gas_used.ok
           THEN /\ ReplayReturn(post_execution_result(FALSE, REASON_REPLAY_EXEC_ERROR,
                                                      replay.val.val))
                /\ UNCHANGED compared
           ELSE /\ compared' = Append(compared, "gas")
                /\ IF ~BigLess(BigFromNat(replay.val.val.gas_used), expected_gas_used.val)
                   THEN ReplayReturn(post_execution_result(FALSE, REASON_REPLAY_MISMATCH_GAS,
                                                           replay.val.val))
                   ELSE ReplayReturn(post_execution_result(TRUE, REASON_REPLAY_MATCHED,
                                                           replay.val.val))
    /\ UNCHANGED <<rinput, replay, evm>>
    /\ consensus_idle /\ inspector_idle /\ codec_idle /\ slot_idle

(* simulation_replay.rs 305-340 *)
CompareGas ==
    /\ rpc = "compare_gas"
    /\ LET expected_gas_used == parse_u256(rinput.simulation.gas_used)
       IN  IF ~expected_gas_used.ok
           THEN /\ ReplayReturn(post_execution_result(FALSE, REASON_REPLAY_EXEC_ERROR,
                                                      replay.val.val))
                /\ UNCHANGED compared
           ELSE /\ compared' = Append(compared, "gas")
                /\ IF BigLess(expected_gas_used.val, BigFromNat(replay.val.val.gas_used))
                   THEN ReplayReturn(post_execution_result(FALSE, REASON_REPLAY_MISMATCH_GAS,
                                                           replay.val.val))
                   ELSE ReplayReturn(post_execution_result(TRUE, REASON_REPLAY_MATCHED,
                                                           replay.val.val))
    /\ UNCHANGED <<rinput, replay, evm>>
    /\ consensus_idle /\ inspector_idle /\ codec_idle /\ slot_idle

----------------------------------------------------------------------------
(* The requests the replay verifier is exercised with *)
Addr(d) == Prefixed(Rep(d, AddressLen))

SimLog(address, topic, data) == [address |-> address, topics |-> <<topic>>, data |-> data]

SimulationLogs ==
    {<<>>,
     <<SimLog(Addr(<<"2", "0">>), Prefixed(Rep(<<"d", "d">>, B256Len)), <<"0", "x", "2", "a">>)>>,
     <<SimLog(Addr(<<"2", "0">>), Prefixed(Rep(<<"D", "D">>, B256Len)), <<"2", "A">>)>>,
     <<SimLog(Addr(<<"3", "0">>), Prefixed(Rep(<<"d", "d">>, B256Len)), <<"0", "x", "2", "a">>)>>,
     <<SimLog(Rep(<<"2", "0">>, AddressLen), Prefixed(Rep(<<"d", "d">>, B256Len)),
              <<"0", "x", "2", "a">>)>>}

ReturnDatas ==
    {None, Some(<<"0", "x">>), Some(<<"0", "x", "2", "a">>), Some(<<" ", "2", "A", " ">>),
     Some(<<"0", "X", "2", "a">>)}

GasUseds == {<<"5">>, <<"0", "x", "6">>, <<"z", "z">>}

U256MaxHex == <<"0", "x">> \o Rep(<<"f">>, U256HexDigits)
U128MaxHex == <<"0", "x">> \o Rep(<<"f">>, U128HexDigits)
AboveU128Hex == <<"0", "x", "1">> \o Rep(<<"0">>, U128HexDigits)
AboveU64Hex == <<"0", "x", "1">> \o Rep(<<"0">>, U64HexDigits)

SafeAddress == Addr(<<"1", "0">>)
TargetAddress == Addr(<<"2", "0">>)
OtherCaller == Addr(<<"3", "A">>)

ReplayBlock(base_fee_per_gas, beneficiary, prev_randao) ==
    [timestamp |-> <<"1">>,
     gas_limit |-> <<"0", "x", "f", "f">>,
     base_fee_per_gas |-> base_fee_per_gas,
     beneficiary |-> beneficiary,
     prev_randao |-> prev_randao,
     difficulty |-> None]

GoodBlock == ReplayBlock(<<"7">>, Addr(<<"0", "0">>), None)

ReplayBlocks ==
    {None,
     Some(GoodBlock),
     Some(ReplayBlock(U128MaxHex, Addr(<<"0", "0">>), None)),
     Some(ReplayBlock(AboveU128Hex, Addr(<<"0", "0">>), None)),
     Some(ReplayBlock(<<"7">>, ShortHex, None)),
     Some(ReplayBlock(<<"7">>, Addr(<<"0", "0">>), Some(ShortHex)))}

WitnessAccount(address, balance, nonce, code, storage) ==
    [address |-> address, balance |-> balance, nonce |-> nonce, code |-> code,
     storage |-> storage]

Slot(slot, value) == [slot |-> slot, value |-> value]

ReplayAccountLists ==
    {<<>>,
     <<WitnessAccount(SafeAddress, <<"3">>, 7, <<"0", "x">>, <<>>)>>,
     <<WitnessAccount(SafeAddress, <<"0", "x", "1">> \o Rep(<<"0">>, 50), 7, <<"0", "x">>, <<>>),
       WitnessAccount(TargetAddress, <<"5">>, 1, <<"0", "x", "0", "0">>,
                      <<Slot(<<"0">>, <<"0", "x", "2", "a">>)>>)>>,
     <<WitnessAccount(SafeAddress, <<"3">>, 7, <<"0", "x">>, <<>>),
       WitnessAccount(to_ascii_lowercase(OtherCaller), <<"4">>, 8, <<"0", "x">>, <<>>),
       WitnessAccount(SafeAddress, <<"9">>, 9, <<"0", "x", "0", "0">>, <<>>)>>,
     <<WitnessAccount(TargetAddress, <<"5">>, 1, <<"0", "x", "0", "0">>,
                      <<Slot(<<"0">>, <<"0", "x", "2", "a">>),
                        Slot(<<"1">>, <<"0", "x", "2", "b">>)>>),
       WitnessAccount(TargetAddress, <<"6">>, 2, <<"0", "x">>,
                      <<Slot(<<"0">>, <<"0", "x", "2", "c">>)>>)>>,
     <<WitnessAccount(TargetAddress, <<"z">>, 1, <<"0", "x">>, <<>>)>>,
     <<WitnessAccount(TargetAddress, <<"5">>, 1, <<"0", "x", "0">>, <<>>)>>,
     <<WitnessAccount(ShortHex, <<"5">>, 1, <<"0", "x">>, <<>>)>>,
     <<WitnessAccount(TargetAddress, <<"5">>, 1, <<"0", "x">>,
                      <<Slot(<<"0">>, <<"z">>)>>)>>}

(* requests that vary what the comparisons look at *)
ComparisonInputs ==
    [chain_id : {1},
     safe_address : {SafeAddress},
     transaction : [to : {TargetAddress, ShortHex}, value : {<<"0">>}, data : {None},
                    operation : {0, 1, 2}, safe_tx_gas : {None}],
     simulation : [success : BOOLEAN, return_data : ReturnDatas, gas_used : GasUseds,
                   block_number : {0}, logs : SimulationLogs],
     simulation_witness : [replay_block : {None, Some(GoodBlock)},
                           replay_accounts : {None, Some(<<>>)},
                           replay_caller : {None},
                           replay_gas_limit : {None},
                           witness_only : {None, Some(TRUE), Some(FALSE)}]]

FixedSimulation ==
    [success |-> TRUE, return_data |-> None, gas_used |-> <<"0", "x", "6">>,
     block_number |-> 0, logs |-> <<>>]

(* requests that vary what execute_replay parses before it seeds accounts *)
ParseInputs ==
    [chain_id : {1},
     safe_address : {SafeAddress},
     transaction : [to : {TargetAddress},
                    value : {<<"1">>, U256MaxHex, <<"z">>},
                    data : {None, Some(<<"0", "x", "2">>)},
                    operation : {0, 1, 2},
                    safe_tx_gas : {None, Some(<<"0">>), Some(<<"5", "0", "0", "0", "0", "0">>),
                                   Some(AboveU64Hex), Some(<<"z">>)}],
     simulation : {FixedSimulation},
     simulation_witness : [replay_block : {None, Some(GoodBlock)},
                           replay_accounts :
                               {None, Some(<<>>),
                                Some(<<WitnessAccount(SafeAddress, <<"3">>, 7, <<"0", "x">>,
                                                      <<>>)>>)},
                           replay_caller : {None, Some(OtherCaller), Some(ShortHex)},
                           replay_gas_limit : {None, Some(<<>>), Some(U64Max)},
                           witness_only : {None, Some(TRUE)}]]

(* requests that vary what execute_replay seeds and the block it builds *)
SeedInputs ==
    [chain_id : {1},
     safe_address : {SafeAddress},
     transaction : [to : {TargetAddress},
                    value : {<<"1">>, U256MaxHex},
                    data : {None},
                    operation : {0},
                    safe_tx_gas : {None}],
     simulation : {FixedSimulation},
     simulation_witness : [replay_block : ReplayBlocks,
                           replay_accounts : {Some(l) : l \in ReplayAccountLists},
                           replay_caller : {None, Some(OtherCaller)},
                           replay_gas_limit : {None, Some(U64Max)},
                           witness_only : {None, Some(TRUE)}]]

ReplayInputs == ComparisonInputs \cup ParseInputs \cup SeedInputs

ReplayInit ==
    /\ rinput \in ReplayInputs
    /\ rpc = "start"
    /\ replay = None
    /\ compared = <<>>
    /\ rresult = None
    /\ evm = NoEvm

ReplayNext ==
    \/ CheckWitness
    \/ ExecuteReplay
    \/ CompareSuccess
    \/ CompareReturnData
    \/ CompareLogs
    \/ CompareGas

ConsensusIdleInit ==
    /\ input = None
    /\ pc = "idle"
    /\ store = DefaultStore
    /\ checks = <<>>
    /\ update_index = 0
    /\ update_count = 0
    /\ parsed = None
    /\ calls = <<>>
    /\ result = None

InitReplay ==
    ReplayInit /\ ConsensusIdleInit /\ InspectorIdleInit /\ CodecIdleInit /\ SlotIdleInit
SpecReplay == InitReplay /\ [][ReplayNext]_vars

----------------------------------------------------------------------------
(* The comparison policy, computed from the request and the replay outcome *)
Executed == rpc = "done" /\ rresult.some /\ replay.some /\ replay.val.ok

MismatchSuccess(inp, rp) == rp.success # inp.simulation.success

MismatchReturnData(inp, rp) ==
    rp.return_data #
        normalize_hex(IF inp.simulation.return_data.some
                      THEN inp.simulation.return_data.val ELSE <<"0", "x">>)

LogsCompared(inp) == inp.simulation_witness.witness_only # Some(TRUE)

MismatchLogs(inp, rp) ==
    /\ LogsCompared(inp)
    /\ normalize_simulation_logs(rp.logs) # normalize_simulation_logs(inp.simulation.logs)

GasParses(inp) == parse_u256(inp.simulation.gas_used).ok

GasExceeds(inp, rp) ==
    GasParses(inp) /\ BigLess(parse_u256(inp.simulation.gas_used).val, BigFromNat(rp.gas_used))

ComparisonsBefore(inp, which) ==
    CASE which = "success" -> <<"success">>
      [] which = "return_data" -> <<"success", "return_data">>
      [] which = "logs" -> <<"success", "return_data", "logs">>
      [] which = "gas-unparsed" ->
            IF LogsCompared(inp) THEN <<"success", "return_data", "logs">>
            ELSE <<"success", "return_data">>
      [] OTHER ->
            IF LogsCompared(inp) THEN <<"success", "return_data", "logs", "gas">>
            ELSE <<"success", "return_data", "gas">>

(* C3 as stated: after a replay that executed, the reason is that of the
   first failing comparison in the order success, return data, logs (unless
   witnessOnly), gas ceiling, and when none fails the result is
   success=true with simulation-replay-matched. *)
C3_FirstFailingComparisonDecides ==
    Executed =>
        LET rp == replay.val.val
            r == rresult.val
        IN  /\ r.reason =
                  IF MismatchSuccess(rinput, rp) THEN REASON_REPLAY_MISMATCH_SUCCESS
                  ELSE IF MismatchReturnData(rinput, rp) THEN REASON_REPLAY_MISMATCH_RETURN_DATA
                  ELSE IF MismatchLogs(rinput, rp) THEN REASON_REPLAY_MISMATCH_LOGS
                  ELSE IF GasExceeds(rinput, rp) THEN REASON_REPLAY_MISMATCH_GAS
                  ELSE REASON_REPLAY_MATCHED
            /\ r.success <=> r.reason = REASON_REPLAY_MATCHED

(* C3 amended: as stated, except that when the first three comparisons pass
   and simulation.gasUsed does not parse as an unsigned integer the result
   is success=false with simulation-replay-exec-error and the gas ceiling
   is not evaluated; every comparison after the deciding one is left
   unevaluated. *)
C3_FirstFailingComparisonOrGasParseDecides ==
    Executed =>
        LET rp == replay.val.val
            r == rresult.val
            which == IF MismatchSuccess(rinput, rp) THEN "success"
                     ELSE IF MismatchReturnData(rinput, rp) THEN "return_data"
                     ELSE IF MismatchLogs(rinput, rp) THEN "logs"
                     ELSE IF ~GasParses(rinput) THEN "gas-unparsed"
                     ELSE IF GasExceeds(rinput, rp) THEN "gas"
                     ELSE "none"
        IN  /\ r.reason =
                  CASE which = "success" -> REASON_REPLAY_MISMATCH_SUCCESS
                    [] which = "return_data" -> REASON_REPLAY_MISMATCH_RETURN_DATA
                    [] which = "logs" -> REASON_REPLAY_MISMATCH_LOGS
                    [] which = "gas-unparsed" -> REASON_REPLAY_EXEC_ERROR
                    [] which = "gas" -> REASON_REPLAY_MISMATCH_GAS
                    [] OTHER -> REASON_REPLAY_MATCHED
            /\ r.success <=> r.reason = REASON_REPLAY_MATCHED
            /\ r.executed
            /\ compared = ComparisonsBefore(rinput, which)

C3_Witness ==
    /\ Executed
    /\ rresult.val.reason = REASON_REPLAY_MATCHED
    /\ rresult.val.success
    /\ BigFromNat(replay.val.val.gas_used) = parse_u256(rinput.simulation.gas_used).val
    /\ rinput.simulation.return_data = Some(<<" ", "2", "A", " ">>)
    /\ Len(rinput.simulation.logs) = 1
    /\ compared = <<"success", "return_data", "logs", "gas">>

----------------------------------------------------------------------------
(* Claims about what verify_simulation_replay does before the comparisons *)
Returned == rpc = "done" /\ rresult.some

AccountsMissing == ~rinput.simulation_witness.replay_accounts.some

(* C11: when the witness has no replayAccounts the result is executed=false,
   success=false, reason simulation-witness-incomplete, without replayLogs
   and replayNativeTransfers, whatever the other fields contain: the call
   returns from its first step, before execute_replay parsed or built
   anything. *)
C11_MissingAccountsIncomplete ==
    AccountsMissing =>
        /\ rpc \in {"start", "done"}
        /\ replay = None
        /\ evm = NoEvm
        /\ compared = <<>>
        /\ Returned =>
              /\ ~rresult.val.executed
              /\ ~rresult.val.success
              /\ rresult.val.reason = REASON_WITNESS_INCOMPLETE
              /\ rresult.val.replay_logs = None
              /\ rresult.val.replay_native_transfers = None

C11_Witness ==
    /\ Returned
    /\ AccountsMissing
    /\ rinput.transaction.operation = 1
    /\ ~parse_u256(rinput.transaction.value).ok
    /\ rinput.simulation_witness.replay_caller = Some(ShortHex)
    /\ rinput.simulation_witness.witness_only = Some(TRUE)
    /\ ~rinput.simulation_witness.replay_block.some
    /\ rresult.val.reason = REASON_WITNESS_INCOMPLETE

WitnessOnlyWithoutBlock ==
    /\ rinput.simulation_witness.witness_only = Some(TRUE)
    /\ ~rinput.simulation_witness.replay_block.some

(* C12 as stated: with witnessOnly=true and no replayBlock the result is
   executed=true, success=false, reason simulation-replay-exec-error. *)
C12_WitnessOnlyWithoutBlockFails ==
    (Returned /\ WitnessOnlyWithoutBlock) =>
        /\ rresult.val.executed
        /\ ~rresult.val.success
        /\ rresult.val.reason = REASON_REPLAY_EXEC_ERROR

(* C12 amended: with replayAccounts present, witnessOnly=true and no
   replayBlock the call never reaches the EVM and returns executed=true,
   success=false, reason simulation-replay-exec-error; when the accounts were
   seeded the error is the missing-block message.  Without replayAccounts
   the result is the witness-incomplete one. *)
C12_WitnessOnlyWithoutBlockFailsGivenAccounts ==
    (Returned /\ WitnessOnlyWithoutBlock) =>
        IF AccountsMissing
        THEN /\ ~rresult.val.executed
             /\ rresult.val.reason = REASON_WITNESS_INCOMPLETE
        ELSE /\ rresult.val.executed
             /\ ~rresult.val.success
             /\ rresult.val.reason = REASON_REPLAY_EXEC_ERROR
             /\ evm.block = None
             /\ replay.some /\ ~replay.val.ok
             /\ compared = <<>>
             /\ evm.db.some => rresult.val.error = Some(MissingBlockError)

C12_Witness ==
    /\ Returned
    /\ WitnessOnlyWithoutBlock
    /\ ~AccountsMissing
    /\ evm.db.some
    /\ Len(rinput.simulation_witness.replay_accounts.val) > 1
    /\ rresult.val.reason = REASON_REPLAY_EXEC_ERROR
    /\ rresult.val.error = Some(MissingBlockError)

Delegatecall == rinput.transaction.operation = 1

EvmNeverRan ==
    /\ rpc \in {"start", "execute", "done"}
    /\ evm = NoEvm
    /\ replay.some => ~replay.val.ok
    /\ compared = <<>>

(* what execute_replay parses before it looks at transaction.operation *)
FieldsBeforeOperationParse(inp) ==
    /\ IF inp.simulation_witness.replay_caller.some
       THEN parse_address(inp.simulation_witness.replay_caller.val).ok
       ELSE parse_address(inp.safe_address).ok
    /\ parse_address(inp.transaction.to).ok
    /\ parse_u256(inp.transaction.value).ok
    /\ inp.transaction.data.some => parse_bytes(inp.transaction.data.val).ok
    /\ (~inp.simulation_witness.replay_gas_limit.some /\ inp.transaction.safe_tx_gas.some)
           => parse_u256(inp.transaction.safe_tx_gas.val).ok

(* C13 as stated: with transaction.operation=1 the result has reason
   simulation-replay-exec-error and the DELEGATECALL error message, and the
   EVM is never executed. *)
C13_DelegatecallRejected ==
    Delegatecall =>
        /\ EvmNeverRan
        /\ Returned =>
              /\ rresult.val.reason = REASON_REPLAY_EXEC_ERROR
              /\ rresult.val.error = Some(DelegatecallError)

(* C13 amended: with transaction.operation=1 the EVM is never executed; when
   replayAccounts is present the result is executed=true, success=false,
   reason simulation-replay-exec-error, and the error is the DELEGATECALL
   message exactly when the caller, transaction.to, transaction.value,
   transaction.data and (without replayGasLimit) transaction.safeTxGas
   parse; when replayAccounts is absent the result is the
   witness-incomplete one. *)
C13_DelegatecallRejectedAfterParsing ==
    Delegatecall =>
        /\ EvmNeverRan
        /\ Returned =>
              IF AccountsMissing
              THEN rresult.val.reason = REASON_WITNESS_INCOMPLETE
              ELSE /\ rresult.val.executed
                   /\ ~rresult.val.success
                   /\ rresult.val.reason = REASON_REPLAY_EXEC_ERROR
                   /\ rresult.val.error = Some(DelegatecallError)
                          <=> FieldsBeforeOperationParse(rinput)

C13_Witness ==
    /\ Returned
    /\ Delegatecall
    /\ ~AccountsMissing
    /\ rinput.simulation_witness.replay_block.some
    /\ rinput.transaction.safe_tx_gas = Some(AboveU64Hex)
    /\ rinput.simulation_witness.replay_caller = Some(OtherCaller)
    /\ rresult.val.reason = REASON_REPLAY_EXEC_ERROR
    /\ rresult.val.error = Some(DelegatecallError)

WitnessOnly == rinput.simulation_witness.witness_only = Some(TRUE)

LogsDiffer(inp, rp) ==
    normalize_simulation_logs(rp.logs) # normalize_simulation_logs(inp.simulation.logs)

(* C14: with witnessOnly=true the log comparison is never evaluated and the
   reason is never simulation-replay-mismatch-logs, whatever the recorded
   and the replayed logs are; a differing success flag, differing return
   data and replay gas above the recorded gas still give, in that order,
   their own mismatch reason. *)
C14_WitnessOnlySkipsLogsOnly ==
    WitnessOnly =>
        /\ \A n \in 1..Len(compared) : compared[n] # "logs"
        /\ Returned => rresult.val.reason # REASON_REPLAY_MISMATCH_LOGS
        /\ Executed =>
              LET rp == replay.val.val
              IN  /\ MismatchSuccess(rinput, rp)
                        => rresult.val.reason = REASON_REPLAY_MISMATCH_SUCCESS
                  /\ (~MismatchSuccess(rinput, rp) /\ MismatchReturnData(rinput, rp))
                        => rresult.val.reason = REASON_REPLAY_MISMATCH_RETURN_DATA
                  /\ (~MismatchSuccess(rinput, rp) /\ ~MismatchReturnData(rinput, rp)
                      /\ GasExceeds(rinput, rp))
                        => rresult.val.reason = REASON_REPLAY_MISMATCH_GAS
                  /\ (~MismatchSuccess(rinput, rp) /\ ~MismatchReturnData(rinput, rp)
                      /\ GasParses(rinput) /\ ~GasExceeds(rinput, rp))
                        => rresult.val.reason = REASON_REPLAY_MATCHED

C14_Witness ==
    /\ Executed
    /\ WitnessOnly
    /\ LogsDiffer(rinput, replay.val.val)
    /\ Len(replay.val.val.logs) = 1 /\ Len(rinput.simulation.logs) = 1
    /\ rresult.val.reason = REASON_REPLAY_MATCHED
    /\ rresult.val.success
    /\ compared = <<"success", "return_data", "gas">>

BothPresent(r) == r.replay_logs.some /\ r.replay_native_transfers.some
BothAbsent(r) == r.replay_logs = None /\ r.replay_native_transfers = None

(* C15 as stated: replayLogs and replayNativeTransfers are both present in
   the results of the mismatch branches and of the matched branch, both
   absent in the witness-incomplete and execution-error results, and never
   one without the other. *)
C15_ReplayFieldsByReason ==
    Returned =>
        LET r == rresult.val
        IN  /\ r.replay_logs.some <=> r.replay_native_transfers.some
            /\ r.reason \in {REASON_REPLAY_MISMATCH_SUCCESS, REASON_REPLAY_MISMATCH_RETURN_DATA,
                             REASON_REPLAY_MISMATCH_LOGS, REASON_REPLAY_MISMATCH_GAS,
                             REASON_REPLAY_MATCHED} => BothPresent(r)
            /\ r.reason \in {REASON_WITNESS_INCOMPLETE, REASON_REPLAY_EXEC_ERROR}
                   => BothAbsent(r)

(* C15 amended: replayLogs and replayNativeTransfers are both present, and
   are the replay's logs and transfers, in every result returned after
   execute_replay succeeded -- each mismatch branch, the matched branch and
   the execution error reported for an unparseable simulation.gasUsed --
   and both absent in every result returned before (witness-incomplete and
   the errors of execute_replay); never one without the other. *)
C15_ReplayFieldsIffExecuted ==
    Returned =>
        LET r == rresult.val
        IN  /\ r.replay_logs.some <=> r.replay_native_transfers.some
            /\ IF replay.some /\ replay.val.ok
               THEN /\ r.replay_logs = Some(replay.val.val.logs)
                    /\ r.replay_native_transfers = Some(replay.val.val.native_transfers)
                    /\ r.executed
               ELSE /\ BothAbsent(r)
                    /\ r.reason \in {REASON_WITNESS_INCOMPLETE, REASON_REPLAY_EXEC_ERROR}

C15_Witness ==
    /\ Executed
    /\ rresult.val.reason = REASON_REPLAY_EXEC_ERROR
    /\ BothPresent(rresult.val)
    /\ Len(rresult.val.replay_logs.val) = 1
    /\ Len(rresult.val.replay_native_transfers.val) = 1

(* the EVM halted the replay transaction *)
Halted == evm.outcome.some /\ evm.outcome.val.kind = "Halt"

HaltLog ==
    [address |-> <<"0", "x">> \o [k \in 1..40 |-> "0"],
     topics |-> <<HaltTopic>>,
     data |-> <<"0", "x">>]

(* the recorded simulation failed with return data "0x", no logs and gas
   that covers the replay's *)
RecordedPlainFailure(inp, gas_used) ==
    /\ ~inp.simulation.success
    /\ inp.simulation.return_data = Some(<<"0", "x">>)
    /\ inp.simulation.logs = <<>>
    /\ parse_u256(inp.simulation.gas_used).ok
    /\ ~BigLess(parse_u256(inp.simulation.gas_used).val, BigFromNat(gas_used))

(* C25: a replay that halts is reported with success=false, return data
   "0x", no native transfers and the single log "halt:<reason>" on the zero
   address, and that log takes part in the log comparison: against a
   recorded simulation with success=false, returnData "0x", no logs and
   sufficient gas the result is simulation-replay-mismatch-logs, and
   simulation-replay-matched when witnessOnly is true. *)
C25_HaltLogCompared ==
    (Returned /\ Halted) =>
        /\ replay = Some(Ok([success |-> FALSE,
                             return_data |-> <<"0", "x">>,
                             gas_used |-> evm.outcome.val.gas_used,
                             logs |-> <<HaltLog>>,
                             native_transfers |-> <<>>]))
        /\ RecordedPlainFailure(rinput, evm.outcome.val.gas_used) =>
              /\ rresult.val.executed
              /\ rresult.val.replay_logs = Some(<<HaltLog>>)
              /\ IF witness_only_of(rinput)
                 THEN rresult.val.reason = REASON_REPLAY_MATCHED /\ rresult.val.success
                 ELSE rresult.val.reason = REASON_REPLAY_MISMATCH_LOGS /\ ~rresult.val.success

C25_Witness ==
    /\ Returned /\ Halted
    /\ evm.outcome.val.native_transfers # <<>>
    /\ RecordedPlainFailure(rinput, evm.outcome.val.gas_used)
    /\ ~witness_only_of(rinput)
    /\ rresult.val.reason = REASON_REPLAY_MISMATCH_LOGS

(* the bytes a hex string encodes: surrounding whitespace and one optional
   prefix, in either letter case, set aside *)
HexBytes(str) ==
    LET trimmed == trim(str)
        prefixed == /\ Len(trimmed) >= 2
                    /\ trimmed[1] = "0"
                    /\ trimmed[2] \in {"x", "X"}
    IN  hex_decode(IF prefixed THEN SubSeq(trimmed, 3, Len(trimmed)) ELSE trimmed)

SameBytes(a, b) == HexBytes(a).ok /\ HexBytes(b).ok /\ HexBytes(a).val = HexBytes(b).val

SameLog(a, b) ==
    /\ SameBytes(a.address, b.address)
    /\ Len(a.topics) = Len(b.topics)
    /\ \A t \in 1..Len(a.topics) : SameBytes(a.topics[t], b.topics[t])
    /\ SameBytes(a.data, b.data)

SameLogs(a, b) == Len(a) = Len(b) /\ \A k \in 1..Len(a) : SameLog(a[k], b[k])

(* C26: hex strings that encode the same bytes and differ only in letter
   case (digits or prefix), in having the 0x prefix, or in surrounding
   whitespace compare as equal: a recorded return data that encodes the
   replay's return data is never a return-data mismatch, and recorded logs
   whose addresses, topics and data encode the replay's are never a log
   mismatch. *)
C26_SameBytesCompareEqual ==
    Executed =>
        LET rp == replay.val.val
            recorded == IF rinput.simulation.return_data.some
                        THEN rinput.simulation.return_data.val
                        ELSE <<"0", "x">>
        IN  /\ SameBytes(recorded, rp.return_data) =>
                  rresult.val.reason # REASON_REPLAY_MISMATCH_RETURN_DATA
            /\ SameLogs(rinput.simulation.logs, rp.logs) =>
                  rresult.val.reason # REASON_REPLAY_MISMATCH_LOGS


(* the gas limit the request asks for: replayGasLimit when set; else
   safeTxGas capped at 2^64 - 1, with 3,000,000 in place of zero; else
   3,000,000 *)
RequestedGasLimit(inp) ==
    IF inp.simulation_witness.replay_gas_limit.some
    THEN inp.simulation_witness.replay_gas_limit.val
    ELSE IF inp.transaction.safe_tx_gas.some
    THEN LET safe_tx_gas == parse_u256(inp.transaction.safe_tx_gas.val).val
             capped == IF BigFits(safe_tx_gas, 16) THEN safe_tx_gas ELSE [k \in 1..16 |-> 15]
         IN  IF capped = <<>> THEN BigFromNat(3000000) ELSE capped
    ELSE BigFromNat(3000000)

(* C27: the gas limit of the replay transaction equals replayGasLimit
   whenever it is set, whatever safeTxGas holds; otherwise
   min(safeTxGas, 2^64 - 1), replaced by 3,000,000 when that is zero;
   otherwise, with safeTxGas absent, 3,000,000. *)
C27_GasLimitResolution ==
    evm.tx.some =>
        /\ evm.tx.val.gas_limit = RequestedGasLimit(rinput)
        /\ rinput.simulation_witness.replay_gas_limit.some
              \/ ~rinput.transaction.safe_tx_gas.some
              \/ parse_u256(rinput.transaction.safe_tx_gas.val).ok

C27_Witness ==
    /\ Returned
    /\ evm.tx.some
    /\ ~rinput.simulation_witness.replay_gas_limit.some
    /\ rinput.transaction.safe_tx_gas = Some(<<"0">>)
    /\ evm.tx.val.gas_limit = BigFromNat(3000000)
    /\ rresult.val.reason = REASON_REPLAY_MATCHED

(* the seven reason codes of the replay verifier *)
ListedReasons ==
    {"simulation-replay-matched", "simulation-replay-exec-error",
     "simulation-replay-mismatch-success", "simulation-replay-mismatch-return-data",
     "simulation-replay-mismatch-logs", "simulation-replay-mismatch-gas",
     "simulation-witness-incomplete"}

(* C28: every result of verify_simulation_replay carries one of the seven
   listed reasons; success=true holds exactly when the reason is
   simulation-replay-matched, which holds exactly when error is absent;
   executed=false holds exactly when the reason is
   simulation-witness-incomplete. *)
C28_ReplayResultConsistent ==
    Returned =>
        LET r == rresult.val
        IN  /\ r.reason \in ListedReasons
            /\ r.success <=> r.reason = "simulation-replay-matched"
            /\ r.reason = "simulation-replay-matched" <=> ~r.error.some
            /\ ~r.executed <=> r.reason = "simulation-witness-incomplete"

C28_Witness ==
    /\ Returned
    /\ rresult.val.executed
    /\ ~rresult.val.success
    /\ rresult.val.reason = "simulation-replay-exec-error"
    /\ rresult.val.error.some
    /\ ~replay.val.ok


----------------------------------------------------------------------------
(* NativeTransferInspector, driven by the EVM's frame events.               *)
(*                                                                          *)
(* The EVM side: open_inputs is the stack of the inputs of the frames in    *)
(* progress (what the EVM hands to call/create and again to call_end/       *)
(* create_end).  A frame is named by its position in `frames`, and that     *)
(* number also serves as the address it runs at; the externally owned       *)
(* caller is address 0.  Every non-zero amount moved is a fresh number, so  *)
(* that a transfer names the event that made it.                            *)
MaxFrames == 3
MaxDepth == 3
MaxSelfdestructs == 1

Transfer(from, to, value) == [from |-> from, to |-> to, value |-> value]

push_frame(stack) == Append(stack, <<>>)

(* Vec::pop().unwrap_or_default() *)
popped_frame(stack) == IF Len(stack) = 0 THEN <<>> ELSE stack[Len(stack)]
after_pop(stack) == IF Len(stack) = 0 THEN <<>> ELSE SubSeq(stack, 1, Len(stack) - 1)

(* settle_frame flattening every exiting frame into the finalized list *)
settle_frame_flattens(stack, fin, frame_transfers) ==
    [frame_stack |-> stack, finalized |-> fin \o frame_transfers]

(* settle_frame: to the parent's buffer, or to finalized when none is left *)
settle_frame(stack, fin, frame_transfers) ==
    IF Len(stack) > 0
    THEN [frame_stack |-> [stack EXCEPT ![Len(stack)] = @ \o frame_transfers],
          finalized |-> fin]
    ELSE [frame_stack |-> stack, finalized |-> fin \o frame_transfers]

(* push_transfer flattening eagerly into the finalized list *)
push_transfer_to_finalized(stack, fin, transfer) ==
    [frame_stack |-> stack, finalized |-> Append(fin, transfer)]

(* push_transfer *)
push_transfer(stack, fin, transfer) ==
    IF Len(stack) > 0
    THEN [frame_stack |-> [stack EXCEPT ![Len(stack)] = Append(@, transfer)],
          finalized |-> fin]
    ELSE [frame_stack |-> stack, finalized |-> Append(fin, transfer)]

Running == reported = None
CurrentFrame == IF Len(open_inputs) = 0 THEN 0 ELSE open_inputs[Len(open_inputs)].frame
NextValue == Len(events) + 1
NumSelfdestructs == Cardinality({n \in 1..Len(events) : events[n].kind = "selfdestruct"})

CanEnter ==
    /\ Running
    /\ Len(frames) < MaxFrames
    /\ Len(open_inputs) < MaxDepth
    /\ Len(frames) = 0 <=> Len(open_inputs) = 0

(* the EVM opens a frame: the history records it and its own value
   transfer, which happens as the frame starts *)
EnterFrame(kind, value) ==
    LET id == Len(frames) + 1
        inputs == [frame |-> id, kind |-> kind, value |-> value,
                   from |-> CurrentFrame, to |-> id]
    IN  /\ open_inputs' = Append(open_inputs, inputs)
        /\ frames' = Append(frames, [parent |-> CurrentFrame, status |-> "open", kind |-> kind])
        /\ events' = IF value.some /\ value.val > 0
                     THEN Append(events, [frame |-> id, kind |-> kind,
                                          transfer |-> Transfer(CurrentFrame, id, value.val)])
                     ELSE events

(* the EVM closes the innermost frame *)
ExitFrame(ok) ==
    /\ open_inputs' = SubSeq(open_inputs, 1, Len(open_inputs) - 1)
    /\ frames' = [frames EXCEPT ![CurrentFrame].status = IF ok THEN "ok" ELSE "failed"]
    /\ UNCHANGED events

(* Inspector::call, simulation_replay.rs 161-164.  transfer_value() is None
   for a DELEGATECALL or STATICCALL frame. *)
call ==
    /\ CanEnter
    /\ \E value \in {None, Some(0), Some(NextValue)} : EnterFrame("call", value)
    /\ frame_stack' = push_frame(frame_stack)
    /\ UNCHANGED <<finalized, reported>>
    /\ consensus_idle /\ replay_idle /\ codec_idle /\ slot_idle

(* call_end putting the frame's own transfer after the frame's buffer *)
call_end_own_transfer_last ==
    /\ Running
    /\ Len(open_inputs) > 0
    /\ open_inputs[Len(open_inputs)].kind = "call"
    /\ \E ok \in BOOLEAN :
          LET inputs == open_inputs[Len(open_inputs)]
              frame_transfers == popped_frame(frame_stack)
              own == IF inputs.value.some /\ inputs.value.val > 0
                     THEN <<Transfer(inputs.from, inputs.to, inputs.value.val)>>
                     ELSE <<>>
              settled == settle_frame(after_pop(frame_stack), finalized, frame_transfers \o own)
          IN  /\ ExitFrame(ok)
              /\ IF ok
                 THEN /\ frame_stack' = settled.frame_stack
                      /\ finalized' = settled.finalized
                 ELSE /\ frame_stack' = after_pop(frame_stack)
                      /\ UNCHANGED finalized
    /\ UNCHANGED reported
    /\ consensus_idle /\ replay_idle /\ codec_idle /\ slot_idle

(* Inspector::call_end, simulation_replay.rs 166-184 *)
call_end ==
    /\ Running
    /\ Len(open_inputs) > 0
    /\ open_inputs[Len(open_inputs)].kind = "call"
    /\ \E ok \in BOOLEAN :
          LET inputs == open_inputs[Len(open_inputs)]
              frame_transfers == popped_frame(frame_stack)
              own == IF inputs.value.some /\ inputs.value.val > 0
                     THEN <<Transfer(inputs.from, inputs.to, inputs.value.val)>>
                     ELSE <<>>
              settled == settle_frame(after_pop(frame_stack), finalized, own \o frame_transfers)
          IN  /\ ExitFrame(ok)
              /\ IF ok
                 THEN /\ frame_stack' = settled.frame_stack
                      /\ finalized' = settled.finalized
                 ELSE /\ frame_stack' = after_pop(frame_stack)
                      /\ UNCHANGED finalized
    /\ UNCHANGED reported
    /\ consensus_idle /\ replay_idle /\ codec_idle /\ slot_idle

(* Inspector::create, simulation_replay.rs 186-189.  The top-level frame of
   the replay transaction is always a call. *)
create ==
    /\ CanEnter
    /\ Len(frames) > 0
    /\ \E value \in {Some(0), Some(NextValue)} : EnterFrame("create", value)
    /\ frame_stack' = push_frame(frame_stack)
    /\ UNCHANGED <<finalized, reported>>
    /\ consensus_idle /\ replay_idle /\ codec_idle /\ slot_idle

(* create_end settling the buffer of a failed frame as well *)
create_end_settles_failed ==
    /\ Running
    /\ Len(open_inputs) > 0
    /\ open_inputs[Len(open_inputs)].kind = "create"
    /\ \E ok \in BOOLEAN :
          LET inputs == open_inputs[Len(open_inputs)]
              address == IF ok THEN Some(inputs.to) ELSE None
              frame_transfers == popped_frame(frame_stack)
              own == IF inputs.value.val > 0 /\ address.some
                     THEN <<Transfer(inputs.from, address.val, inputs.value.val)>>
                     ELSE <<>>
              settled == settle_frame(after_pop(frame_stack), finalized, own \o frame_transfers)
          IN  /\ ExitFrame(ok)
              /\ frame_stack' = settled.frame_stack
              /\ finalized' = settled.finalized
    /\ UNCHANGED reported
    /\ consensus_idle /\ replay_idle /\ codec_idle /\ slot_idle

(* Inspector::create_end, simulation_replay.rs 191-215.  A successful create
   always carries the created address. *)
create_end ==
    /\ Running
    /\ Len(open_inputs) > 0
    /\ open_inputs[Len(open_inputs)].kind = "create"
    /\ \E ok \in BOOLEAN :
          LET inputs == open_inputs[Len(open_inputs)]
              address == IF ok THEN Some(inputs.to) ELSE None
              frame_transfers == popped_frame(frame_stack)
              own == IF inputs.value.val > 0 /\ address.some
                     THEN <<Transfer(inputs.from, address.val, inputs.value.val)>>
                     ELSE <<>>
              settled == settle_frame(after_pop(frame_stack), finalized, own \o frame_transfers)
          IN  /\ ExitFrame(ok)
              /\ IF ok
                 THEN /\ frame_stack' = settled.frame_stack
                      /\ finalized' = settled.finalized
                 ELSE /\ frame_stack' = after_pop(frame_stack)
                      /\ UNCHANGED finalized
    /\ UNCHANGED reported
    /\ consensus_idle /\ replay_idle /\ codec_idle /\ slot_idle

(* Inspector::selfdestruct, simulation_replay.rs 217-225: raised by the code
   running in the innermost open frame *)
selfdestruct ==
    /\ Running
    /\ Len(open_inputs) > 0
    /\ NumSelfdestructs < MaxSelfdestructs
    /\ \E value \in {0, NextValue} :
          LET transfer == Transfer(CurrentFrame, 0, value)
              pushed == push_transfer(frame_stack, finalized, transfer)
          IN  /\ events' = Append(events, [frame |-> CurrentFrame, kind |-> "selfdestruct",
                                           transfer |-> transfer])
              /\ IF value > 0
                 THEN /\ frame_stack' = pushed.frame_stack
                      /\ finalized' = pushed.finalized
                 ELSE UNCHANGED <<frame_stack, finalized>>
    /\ UNCHANGED <<open_inputs, frames, reported>>
    /\ consensus_idle /\ replay_idle /\ codec_idle /\ slot_idle

(* into_transfers and extract_execution, simulation_replay.rs 152-154 and
   543-579: the transaction is over; a reverted or halted transaction
   reports no transfers *)
into_transfers ==
    /\ Running
    /\ Len(frames) > 0
    /\ Len(open_inputs) = 0
    /\ reported' = Some(IF frames[1].status = "ok" THEN finalized ELSE <<>>)
    /\ UNCHANGED <<frame_stack, finalized, open_inputs, frames, events>>
    /\ consensus_idle /\ replay_idle /\ codec_idle /\ slot_idle

InspectorNext ==
    \/ call
    \/ call_end
    \/ create
    \/ create_end
    \/ selfdestruct
    \/ into_transfers

InitInspector ==
    InspectorIdleInit /\ ConsensusIdleInit /\ ReplayIdleInit /\ CodecIdleInit /\ SlotIdleInit
SpecInspector == InitInspector /\ [][InspectorNext]_vars

----------------------------------------------------------------------------
(* Frame 0 stands for the externally owned caller: it has no frame of its
   own and nothing above it can fail. *)
RECURSIVE Committed(_)
Committed(f) == f = 0 \/ (frames[f].status = "ok" /\ Committed(frames[f].parent))

RECURSIVE Discarded(_)
Discarded(f) == f # 0 /\ (frames[f].status = "failed" \/ Discarded(frames[f].parent))

ElementsOf(seq) == {seq[n] : n \in 1..Len(seq)}

CommittedEvent(e) == e.transfer.value > 0 /\ Committed(e.frame)

(* the transfers of committed frames, in the order they happened *)
CommittedTransfers ==
    LET kept == SelectSeq(events, CommittedEvent)
    IN  [n \in 1..Len(kept) |-> kept[n].transfer]

TopLevelOk == Len(frames) > 0 /\ frames[1].status = "ok"

(* C4: a transfer made inside a frame that failed, or inside any descendant
   of a failed frame, is never in the finalized list nor in the reported
   replayNativeTransfers; when the top-level frame fails the reported list
   is empty. *)
C4_DiscardedTransfersNeverReported ==
    /\ \A n \in 1..Len(events) :
          Discarded(events[n].frame) =>
              /\ events[n].transfer \notin ElementsOf(finalized)
              /\ reported.some => events[n].transfer \notin ElementsOf(reported.val)
    /\ (reported.some /\ ~TopLevelOk) => reported.val = <<>>

C4_Witness ==
    /\ reported.some
    /\ TopLevelOk
    /\ reported.val # <<>>
    /\ \E n \in 1..Len(events) :
          /\ events[n].transfer.value > 0
          /\ frames[events[n].frame].status = "ok"
          /\ Discarded(events[n].frame)

(* C5: when the top-level frame succeeds, the reported replayNativeTransfers
   are exactly the transfers of the frames that succeeded together with all
   their ancestors, in the order the transfers happened. *)
C5_CommittedTransfersInExecutionOrder ==
    (reported.some /\ TopLevelOk) => reported.val = CommittedTransfers

C5_Witness ==
    /\ reported.some
    /\ TopLevelOk
    /\ Len(reported.val) >= 3
    /\ Len(events) > Len(reported.val)
    /\ \E n \in 1..Len(events) : events[n].kind = "create" /\ Committed(events[n].frame)


(* a step in which the EVM raised SELFDESTRUCT *)
SelfdestructStep ==
    /\ Len(events') = Len(events) + 1
    /\ events'[Len(events')].kind = "selfdestruct"

SelfdestructTransfer == events'[Len(events')].transfer

(* a step in which the outermost frame exits successfully *)
OutermostExitsOk ==
    /\ Len(open_inputs) = 1
    /\ Len(open_inputs') = 0
    /\ frames[open_inputs[1].frame].parent = 0
    /\ frames'[open_inputs[1].frame].status = "ok"

(* C23: a SELFDESTRUCT with value > 0 appends its transfer to the buffer of
   the innermost open frame and leaves the finalized list unchanged; one
   with value 0 records nothing.  While a frame is open no event changes
   the finalized list: it changes only in the step in which the outermost
   frame exits successfully. *)
C23_SelfdestructBuffered ==
    [][/\ SelfdestructStep =>
            /\ Len(frame_stack) > 0
            /\ finalized' = finalized
            /\ frame_stack' =
                   IF SelfdestructTransfer.value > 0
                   THEN [frame_stack EXCEPT ![Len(frame_stack)] =
                                                Append(@, SelfdestructTransfer)]
                   ELSE frame_stack
       /\ finalized' # finalized => OutermostExitsOk]_vars

C23_Witness ==
    /\ Len(frame_stack) >= 2
    /\ finalized = <<>>
    /\ events # <<>>
    /\ events[Len(events)].kind = "selfdestruct"
    /\ events[Len(events)].transfer.value > 0
    /\ frame_stack[Len(frame_stack)] # <<>>
    /\ frame_stack[Len(frame_stack)][Len(frame_stack[Len(frame_stack)])] =
           events[Len(events)].transfer

(* steps in which the EVM enters a frame, or leaves the innermost one *)
EnterStep == Len(open_inputs') = Len(open_inputs) + 1
ExitStep == Len(open_inputs') = Len(open_inputs) - 1
ExitFailed == ExitStep /\ frames'[CurrentFrame].status = "failed"

FrameStackStep ==
    /\ Len(frame_stack') = Len(open_inputs')
    /\ EnterStep => frame_stack' = Append(frame_stack, <<>>)
    /\ ExitStep =>
          /\ Len(frame_stack) > 0
          /\ Len(frame_stack') = Len(frame_stack) - 1
          /\ \A k \in 1..(Len(frame_stack) - 2) : frame_stack'[k] = frame_stack[k]
    /\ ExitFailed =>
          /\ frame_stack' = SubSeq(frame_stack, 1, Len(frame_stack) - 1)
          /\ finalized' = finalized
    /\ open_inputs' = <<>> => frame_stack' = <<>>

(* C24: the frame stack is as deep as the number of frames entered and not
   yet exited.  Entering a call or create frame pushes exactly one empty
   buffer; leaving one pops exactly one buffer whether the frame succeeded
   or failed, and leaves the buffers below the parent untouched; leaving a
   failed frame leaves the parent's buffer and the finalized list unchanged;
   once every entered frame has been left the stack is empty. *)
C24_StackDepthIsOpenFrames ==
    /\ Len(frame_stack) = Len(open_inputs)
    /\ [][FrameStackStep]_vars

C24_Witness ==
    /\ Len(frames) = MaxFrames
    /\ open_inputs = <<>>
    /\ frame_stack = <<>>
    /\ \E n \in 1..Len(events) :
          /\ events[n].transfer.value > 0
          /\ frames[events[n].frame].status = "failed"
          /\ frames[events[n].frame].kind = "create"
          /\ frames[frames[events[n].frame].parent].status = "ok"


----------------------------------------------------------------------------
(* Both verifiers and the inspector, one call at a time *)
VerifiersInit == Init \/ InitReplay \/ InitInspector

VerifiersNext ==
    \/ pc # "idle" /\ Next
    \/ rpc # "idle" /\ ReplayNext
    \/ pc = "idle" /\ rpc = "idle" /\ InspectorNext

SpecVerifiers == VerifiersInit /\ [][VerifiersNext]_vars

ReasonCodes ==
    {REASON_REPLAY_MATCHED, REASON_REPLAY_EXEC_ERROR, REASON_REPLAY_MISMATCH_SUCCESS,
     REASON_REPLAY_MISMATCH_RETURN_DATA, REASON_REPLAY_MISMATCH_LOGS,
     REASON_REPLAY_MISMATCH_GAS, REASON_WITNESS_INCOMPLETE}

(* gas_limit * gas_price + value as exact integers *)
ExactRequiredBalance(limit, price, value) == BigAdd(BigMul(limit, price), value)

(* C16: no call ends in an abort.  verify_simulation_replay never panics:
   no Uint::to conversion is reached with a value out of range, and
   gas_limit * gas_price + value is computed without a trap over the whole
   range of its operands.  Either verifier, once it returned, has produced a
   result that carries a code (a consensus result that is not valid has an
   error code, a replay result has one of the seven reasons).  In the
   inspector every frame exit finds its own buffer to pop. *)
C16_NoAbort ==
    /\ rpc # "aborted"
    /\ pc = "done" => result.some /\ (result.val.valid \/ result.val.error_code.some)
    /\ rpc = "done" => rresult.some /\ rresult.val.reason \in ReasonCodes
    /\ Len(frame_stack) = Len(open_inputs)

C16_Witness ==
    /\ Returned
    /\ rinput.transaction.safe_tx_gas = Some(AboveU64Hex)
    /\ ~rinput.simulation_witness.replay_gas_limit.some
    /\ rinput.transaction.value = U256MaxHex
    /\ evm.tx.some
    /\ evm.tx.val.gas_limit = U64Max
    /\ ~BigFits(ExactRequiredBalance(evm.tx.val.gas_limit, evm.tx.val.gas_price,
                                     evm.tx.val.value), U256HexDigits)
    /\ rresult.val.reason = REASON_REPLAY_MATCHED


(* the witness accounts listed under an address, and the one listed last *)
ListedUnder(accounts, address) ==
    {k \in 1..Len(accounts) : parse_address(accounts[k].address) = Ok(address)}

LastListed(accounts, address) ==
    accounts[CHOOSE k \in ListedUnder(accounts, address) :
                 \A j \in ListedUnder(accounts, address) : j <= k]

BigMax(a, b) == IF BigLess(a, b) THEN b ELSE a

(* C20: once the witness accounts are seeded, the caller account of the
   replay state holds the larger of its witness balance and
   gas_limit * gas_price + value taken as exact integers, so at least that
   sum; a caller the witness does not list is created with nonce 0, empty
   code and exactly that sum as balance; every other account holds its
   witness balance. *)
C20_CallerBalanceCoversCost ==
    evm.db.some =>
        LET db == evm.db.val
            tx == evm.tx.val
            accounts == rinput.simulation_witness.replay_accounts.val
            required == ExactRequiredBalance(tx.gas_limit, tx.gas_price, tx.value)
        IN  /\ tx.caller \in DOMAIN db
            /\ ~BigLess(db[tx.caller].info.balance, required)
            /\ IF ListedUnder(accounts, tx.caller) # {}
               THEN db[tx.caller].info.balance =
                        BigMax(parse_u256(LastListed(accounts, tx.caller).balance).val,
                               required)
               ELSE db[tx.caller].info = AccountInfo(required, 0, <<>>)
            /\ \A address \in DOMAIN db \ {tx.caller} :
                  /\ ListedUnder(accounts, address) # {}
                  /\ db[address].info.balance =
                         parse_u256(LastListed(accounts, address).balance).val


(* the storage a single witness entry describes: its slots, in key order *)
StorageOf(entry) ==
    LET slots == entry.storage
        keys == {parse_u256(slots[k].slot).val : k \in 1..Len(slots)}
        last(key) == CHOOSE k \in 1..Len(slots) :
                         /\ parse_u256(slots[k].slot).val = key
                         /\ \A j \in 1..Len(slots) :
                               parse_u256(slots[j].slot).val = key => j <= k
    IN  [key \in keys |-> parse_u256(slots[last(key)].value).val]

(* C21: once the witness accounts are seeded, the replay state of every
   address listed in replayAccounts is the one its last entry describes:
   that entry's nonce and code, its balance (for an address other than the
   caller, whose balance may be topped up), and its storage slots and no
   others. *)
C21_LastEntryWins ==
    evm.db.some =>
        LET db == evm.db.val
            accounts == rinput.simulation_witness.replay_accounts.val
        IN  \A address \in DOMAIN db :
                ListedUnder(accounts, address) # {} =>
                    LET entry == LastListed(accounts, address)
                    IN  /\ db[address].info.nonce = entry.nonce
                        /\ db[address].info.code = parse_bytes(entry.code).val
                        /\ address # evm.tx.val.caller =>
                               db[address].info.balance = parse_u256(entry.balance).val
                        /\ db[address].storage = StorageOf(entry)


(* C22: the nonce of the replay transaction equals the nonce of the caller
   account in the seeded replay state: the witness nonce of the caller when
   replayAccounts lists it, however often and in whatever letter case, and
   zero when it does not. *)
C22_TxNonceIsCallerNonce ==
    evm.db.some =>
        LET db == evm.db.val
            tx == evm.tx.val
            accounts == rinput.simulation_witness.replay_accounts.val
        IN  /\ tx.caller \in DOMAIN db
            /\ tx.nonce = db[tx.caller].info.nonce
            /\ IF ListedUnder(accounts, tx.caller) # {}
               THEN \E k \in ListedUnder(accounts, tx.caller) : tx.nonce = accounts[k].nonce
               ELSE tx.nonce = 0


----------------------------------------------------------------------------
(* normalize_hex applied to a string and again to its own results *)
MaxHexLen == 4
MaxNormalizations == 2

HexAlphabet == {" ", "0", "x", "X", "a", "A"}

HexStrings == UNION {[1..n -> HexAlphabet] : n \in 0..MaxHexLen}

NormalizeHex ==
    /\ Len(codec_out) < MaxNormalizations
    /\ codec_out' = Append(codec_out,
                           normalize_hex(IF Len(codec_out) = 0 THEN codec_in
                                         ELSE codec_out[Len(codec_out)]))
    /\ UNCHANGED codec_in
    /\ consensus_idle /\ replay_idle /\ inspector_idle /\ slot_idle

CodecInit ==
    /\ codec_in \in HexStrings
    /\ codec_out = <<>>

CodecNext == NormalizeHex

InitCodec ==
    CodecInit /\ ConsensusIdleInit /\ ReplayIdleInit /\ InspectorIdleInit /\ SlotIdleInit
SpecCodec == InitCodec /\ [][CodecNext]_vars

(* C17: normalize_hex is idempotent: applied to its own result it returns
   that result, for every input string -- surrounding whitespace, an
   upper-case "0X" prefix, a repeated "0x" prefix and nothing after the
   prefix included. *)
C17_NormalizeHexIdempotent ==
    \A n \in 2..Len(codec_out) : codec_out[n] = codec_out[n - 1]

C17_Witness ==
    /\ Len(codec_out) >= 2
    /\ codec_in = <<" ", "0", "X", "A">>
    /\ codec_out[1] = <<"0", "x", "0", "x", "a">>
    /\ codec_out[2] = codec_out[1]

----------------------------------------------------------------------------
(* expected_current_slot_for_network applied to a clock reading and the
   configuration of a supported network *)
MaxSlot == 3

ConsensusNetworks == {"Mainnet", "Sepolia", "Holesky", "Hoodi", "Gnosis"}

(* consensus.rs 90-247, 309-317: genesis time and slot length per network *)
get_network_config(network) ==
    CASE network = "Mainnet" -> [genesis_time |-> 1606824023, seconds_per_slot |-> 12]
      [] network = "Sepolia" -> [genesis_time |-> 1655733600, seconds_per_slot |-> 12]
      [] network = "Gnosis" -> [genesis_time |-> 1638993340, seconds_per_slot |-> 5]
      [] network = "Holesky" -> [genesis_time |-> 1695902400, seconds_per_slot |-> 12]
      [] network = "Hoodi" -> [genesis_time |-> 1742213400, seconds_per_slot |-> 12]

(* SystemTime: whole seconds and nanoseconds from the Unix epoch; secs < 0 is
   a clock set before the epoch *)
SystemTime(secs, nanos) == [secs |-> secs, nanos |-> nanos]

(* now.duration_since(UNIX_EPOCH).unwrap_or_default().as_secs() *)
secs_since_epoch(now) == IF now.secs < 0 THEN 0 ELSE now.secs

saturating_sub(a, b) == IF a < b THEN 0 ELSE a - b

(* the slot calculation with a plain subtraction in place of saturating_sub *)
expected_current_slot_without_saturation(now, genesis_time, seconds_per_slot) ==
    LET since_genesis == secs_since_epoch(now) - genesis_time
    IN  IF seconds_per_slot = 0 THEN Panic
        ELSE Ok(since_genesis \div seconds_per_slot)

(* consensus.rs 918-926; an integer division by zero panics *)
expected_current_slot_for_network(now, genesis_time, seconds_per_slot) ==
    LET since_genesis == saturating_sub(secs_since_epoch(now), genesis_time)
    IN  IF seconds_per_slot = 0 THEN Panic
        ELSE Ok(since_genesis \div seconds_per_slot)

(* clock readings around the genesis of a network and through its first
   slots, and readings at and before the Unix epoch *)
SystemTimes(config) ==
    {SystemTime(config.genesis_time + d, nanos) :
        d \in (-2)..((MaxSlot + 1) * config.seconds_per_slot - 1),
        nanos \in {0, 999999999}}
    \cup {SystemTime(-1, 0), SystemTime(0, 0)}

SlotInit ==
    /\ slot_in \in UNION {{Some([now |-> now, network |-> network]) :
                              now \in SystemTimes(get_network_config(network))} :
                          network \in ConsensusNetworks}
    /\ current_slot = None

(* consensus.rs 663-667 *)
ComputeSlot ==
    /\ slot_in.some
    /\ current_slot = None
    /\ LET config == get_network_config(slot_in.val.network)
       IN  current_slot' = Some(expected_current_slot_for_network(slot_in.val.now,
                                                                  config.genesis_time,
                                                                  config.seconds_per_slot))
    /\ UNCHANGED slot_in
    /\ consensus_idle /\ replay_idle /\ inspector_idle /\ codec_idle

SlotNext == ComputeSlot

InitSlot ==
    SlotInit /\ ConsensusIdleInit /\ ReplayIdleInit /\ InspectorIdleInit /\ CodecIdleInit
SpecSlot == InitSlot /\ [][SlotNext]_vars

(* the configuration and the clock reading of the computed slot *)
SlotConfig == get_network_config(slot_in.val.network)
SlotNow == slot_in.val.now

(* C30: expected_current_slot_for_network returns exactly k when now is
   genesis_time + k * seconds_per_slot, floor((now - genesis_time) /
   seconds_per_slot) in general, and 0 whenever now is before genesis_time;
   seconds_per_slot is non-zero for every supported network, so the
   division is defined. *)
C30_SlotIsFloorSinceGenesis ==
    /\ \A network \in ConsensusNetworks : get_network_config(network).seconds_per_slot > 0
    /\ current_slot.some =>
          /\ current_slot.val.ok
          /\ LET slot == current_slot.val.val
                 genesis_time == SlotConfig.genesis_time
                 seconds_per_slot == SlotConfig.seconds_per_slot
             IN  /\ SlotNow.secs < genesis_time => slot = 0
                 /\ \A k \in 0..(MaxSlot + 1) :
                       SlotNow = SystemTime(genesis_time + k * seconds_per_slot, 0)
                           => slot = k
                 /\ SlotNow.secs >= genesis_time =>
                       /\ slot * seconds_per_slot <= SlotNow.secs - genesis_time
                       /\ SlotNow.secs - genesis_time < (slot + 1) * seconds_per_slot

C30_Witness ==
    /\ current_slot = Some(Ok(MaxSlot))
    /\ slot_in.val.network = "Gnosis"
    /\ SlotNow = SystemTime(SlotConfig.genesis_time + MaxSlot * SlotConfig.seconds_per_slot, 0)

============================================================================
